---- MODULE Spec2Model ----
(***************************************************************************)
(* Model of the data-packet request builder and signing orchestrator       *)
(* (routes/requests/dataPacket.ts): the field parsers and validators,      *)
(* buildFlags, the URL descriptor builder, the details assembler and the   *)
(* two request handlers generateDataPacketQr (Path A) and signDataPacket   *)
(* (Path B).                                                               *)
(*                                                                         *)
(* A JavaScript string is a sequence of one-character strings, so that     *)
(* trim(), endsWith(), slice(), the hex regular expression and the hex     *)
(* codec of Buffer are computed character by character.                    *)
(***************************************************************************)
EXTENDS Integers, Sequences, FiniteSets, TLC

\* ------------------------------------------------------------------------
\* JavaScript values of the string-typed payload fields
\* ------------------------------------------------------------------------

\* a value that is not a string keeps an empty s
JsUndefined == [t |-> "undefined", s |-> <<>>]
JsNull == [t |-> "null", s |-> <<>>]
JsNumber == [t |-> "number", s |-> <<>>]
JsString(s) == [t |-> "string", s |-> s]

\* value == null in JavaScript: null or undefined
IsNullish(v) == v.t \in {"undefined", "null"}

\* the characters String.prototype.trim removes
WhiteSpace == {" ", "\t", "\n"}

RECURSIVE TrimStart(_)
TrimStart(s) ==
    IF s = <<>> THEN <<>>
    ELSE IF Head(s) \in WhiteSpace THEN TrimStart(Tail(s))
    ELSE s

RECURSIVE TrimEnd(_)
TrimEnd(s) ==
    IF s = <<>> THEN <<>>
    ELSE IF s[Len(s)] \in WhiteSpace THEN TrimEnd(SubSeq(s, 1, Len(s) - 1))
    ELSE s

\* String.prototype.trim
Trim(s) == TrimEnd(TrimStart(s))

\* ------------------------------------------------------------------------
\* validateDataHash and the hex codec of Buffer
\* ------------------------------------------------------------------------

\* the number of hex characters the regular expression of validateDataHash asks
\* for, and the number of bytes its message promises
HashHexLen == 64
HashBytes == 32

HexDigits == <<"0", "1", "2", "3", "4", "5", "6", "7", "8", "9", "a", "b", "c", "d", "e", "f">>
UpperHexDigits == <<"0", "1", "2", "3", "4", "5", "6", "7", "8", "9", "A", "B", "C", "D", "E", "F">>

\* the character class [0-9a-fA-F]
IsHexChar(c) == \E i \in 1..16 : HexDigits[i] = c \/ UpperHexDigits[i] = c

\* the value 0..15 of a hex character
HexVal(c) == (CHOOSE i \in 1..16 : HexDigits[i] = c \/ UpperHexDigits[i] = c) - 1

\* the regular expression without its anchors: 64 hex characters somewhere in s
MatchesHashRegex_Unanchored(s) ==
    \E from \in 1..Len(s) :
        /\ from + HashHexLen - 1 <= Len(s)
        /\ \A i \in from..(from + HashHexLen - 1) : IsHexChar(s[i])

\* /^[0-9a-fA-F]{64}$/.test(s)
MatchesHashRegex(s) == Len(s) = HashHexLen /\ \A i \in 1..Len(s) : IsHexChar(s[i])

\* Buffer.from(s) without the 'hex' encoding: one byte per character
BufferFromHex_NoEncoding(s) == [i \in 1..Len(s) |-> HexVal(s[i])]

\* Buffer.from(s, 'hex'): one byte per pair of hex characters, decoding stops at
\* the first pair that is not hex; an odd last character is dropped
RECURSIVE BufferFromHex(_)
BufferFromHex(s) ==
    IF Len(s) < 2 THEN <<>>
    ELSE IF ~(IsHexChar(s[1]) /\ IsHexChar(s[2])) THEN <<>>
    ELSE <<16 * HexVal(s[1]) + HexVal(s[2])>> \o BufferFromHex(SubSeq(s, 3, Len(s)))

\* buf.toString('hex'): two lowercase hex characters per byte
RECURSIVE BufferToHex(_)
BufferToHex(buf) ==
    IF buf = <<>> THEN <<>>
    ELSE <<HexDigits[(Head(buf) \div 16) + 1], HexDigits[(Head(buf) % 16) + 1]>>
             \o BufferToHex(Tail(buf))

\* String.prototype.toLowerCase on the characters of the model
LowerChar(c) ==
    IF \E i \in 1..16 : UpperHexDigits[i] = c
    THEN HexDigits[CHOOSE i \in 1..16 : UpperHexDigits[i] = c]
    ELSE c
ToLowerCase(s) == [i \in 1..Len(s) |-> LowerChar(s[i])]

\* results of validateDataHash: undefined, a Buffer, or a thrown ValidationError
HashUndefined == [k |-> "undefined", buf |-> <<>>]
HashBuffer(b) == [k |-> "buffer", buf |-> b]
HashValidationError == [k |-> "ValidationError", buf |-> <<>>]

\* a malformed hash is dropped instead of rejected
validateDataHash_SilentDrop(dataHash) ==
    IF IsNullish(dataHash) \/ (dataHash.t = "string" /\ dataHash.s = <<>>) THEN HashUndefined
    ELSE LET trimmed == Trim(dataHash.s)
         IN  IF Len(trimmed) = 0 THEN HashUndefined
             ELSE IF ~MatchesHashRegex(trimmed) THEN HashUndefined
             ELSE HashBuffer(BufferFromHex(trimmed))

\* dataHash is a string or undefined (the parameter's type)
validateDataHash(dataHash) ==
    IF IsNullish(dataHash) \/ (dataHash.t = "string" /\ dataHash.s = <<>>) THEN HashUndefined
    ELSE LET trimmed == Trim(dataHash.s)
         IN  IF Len(trimmed) = 0 THEN HashUndefined
             ELSE IF ~MatchesHashRegex(trimmed) THEN HashValidationError
             ELSE HashBuffer(BufferFromHex(trimmed))

\* ------------------------------------------------------------------------
\* JSON array fields: signableObjects, statements, redirects
\* ------------------------------------------------------------------------

\* An element of a JSON array: a string (s), a number, null, or an object.
\* codecOk says whether DataDescriptor.fromJson accepts the element (the codec
\* is an external library: its verdict is an attribute of the input).
JsonItem(t, s, codecOk) == [t |-> t, s |-> s, codecOk |-> codecOk]
NoItem == JsonItem("null", <<>>, FALSE)

\* A JSON text is a sequence of tokens: the punctuation "[", "]", ",", white
\* space " ", or a scalar/object literal ("item") carrying its value.
Tok(c) == [c |-> c, item |-> NoItem]
ItemTok(it) == [c |-> "item", item |-> it]

\* the value of an array-typed payload field: undefined, null, a number, a
\* string holding a JSON text (s), or an already-parsed array (a)
FieldUndefined == [t |-> "undefined", s |-> <<>>, a |-> <<>>]
FieldNull == [t |-> "null", s |-> <<>>, a |-> <<>>]
FieldNumber == [t |-> "number", s |-> <<>>, a |-> <<>>]
FieldString(text) == [t |-> "string", s |-> text, a |-> <<>>]
FieldArray(items) == [t |-> "array", s |-> <<>>, a |-> items]

\* results of JSON.parse: a SyntaxError, a value that is not an array, an array
JsonSyntaxError == [k |-> "SyntaxError", a |-> <<>>]
JsonNotArray == [k |-> "value", a |-> <<>>]
JsonArray(items) == [k |-> "array", a |-> items]

\* the elements of "item , item , ... , item"; a token "error" marks a syntax
\* error (a missing element, a missing or trailing comma)
RECURSIVE JsonElements(_)
JsonElements(toks) ==
    IF toks = <<>> THEN <<>>
    ELSE IF Head(toks).c # "item" THEN <<Tok("error")>>
    ELSE IF Len(toks) = 1 THEN <<Head(toks)>>
    ELSE IF toks[2].c # "," \/ Len(toks) = 2 THEN <<Tok("error")>>
    ELSE <<Head(toks)>> \o JsonElements(SubSeq(toks, 3, Len(toks)))

\* JSON.parse on a token text: white space between tokens is insignificant
JsonParse(text) ==
    LET toks == SelectSeq(text, LAMBDA x : x.c # " ")
    IN  IF toks = <<>> THEN JsonSyntaxError
        ELSE IF Len(toks) = 1
             THEN IF toks[1].c = "item" THEN JsonNotArray ELSE JsonSyntaxError
        ELSE IF toks[1].c # "[" \/ toks[Len(toks)].c # "]" THEN JsonSyntaxError
        ELSE LET els == JsonElements(SubSeq(toks, 2, Len(toks) - 1))
             IN  IF \E i \in 1..Len(els) : els[i].c = "error" THEN JsonSyntaxError
                 ELSE JsonArray([i \in 1..Len(els) |-> els[i].item])

\* the text "[]"
EmptyArrayText == <<Tok("["), Tok("]")>>

\* common head of parseSignableObjects and parseStatements: the array to map
\* over ("array"), nothing supplied ("absent"), or a ValidationError
ParsedAbsent == [k |-> "absent", a |-> <<>>, msg |-> ""]
ParsedArray(items) == [k |-> "array", a |-> items, msg |-> ""]
ParsedError(msg) == [k |-> "ValidationError", a |-> <<>>, msg |-> msg]

\* only a string is accepted: the Array.isArray branch is missing
ParseArrayField_StringOnly(value, invalidJson, notArray) ==
    IF IsNullish(value) \/ (value.t = "string" /\ value.s \in {<<>>, EmptyArrayText})
    THEN ParsedAbsent
    ELSE IF value.t = "string"
         THEN LET parsed == JsonParse(value.s)
              IN  IF parsed.k = "SyntaxError" THEN ParsedError(invalidJson)
                  ELSE IF parsed.k # "array" THEN ParsedError(notArray)
                  ELSE ParsedArray(parsed.a)
    ELSE ParsedError(notArray)

\* lines 85-105 and 125-145
ParseArrayField(value, invalidJson, notArray) ==
    IF IsNullish(value) \/ (value.t = "string" /\ value.s \in {<<>>, EmptyArrayText})
    THEN ParsedAbsent
    ELSE IF value.t = "string"
         THEN LET parsed == JsonParse(value.s)
              IN  IF parsed.k = "SyntaxError" THEN ParsedError(invalidJson)
                  ELSE IF parsed.k # "array" THEN ParsedError(notArray)
                  ELSE ParsedArray(parsed.a)
    ELSE IF value.t = "array" THEN ParsedArray(value.a)
    ELSE ParsedError(notArray)

\* the callback runs for every element and the last error is the one thrown
FirstIndex_Last(throws) ==
    IF \E i \in 1..Len(throws) : throws[i]
    THEN (CHOOSE i \in 1..Len(throws) :
            throws[i] /\ \A j \in (i + 1)..Len(throws) : ~throws[j]) - 1
    ELSE -1

\* the index (from 0) of the first TRUE of a sequence of booleans, or -1: the
\* element at which Array.prototype.map stops because its callback throws
FirstIndex(throws) ==
    IF \E i \in 1..Len(throws) : throws[i]
    THEN (CHOOSE i \in 1..Len(throws) :
            throws[i] /\ \A j \in 1..(i - 1) : ~throws[j]) - 1
    ELSE -1

\* a DataDescriptor: either the synthesized URL descriptor (kind "url", whose
\* objectdata is the keyed container holding a URLRef) or one built by
\* DataDescriptor.fromJson from a submitted element (kind "json")
NoBytes == <<>>
UrlDescriptor(url, hasHash, datahash) ==
    [kind |-> "url", key |-> "CrossChainDataRefKey", url |-> url,
     hasDatahash |-> hasHash, datahash |-> datahash, item |-> NoItem]
JsonDescriptor(item) ==
    [kind |-> "json", key |-> "", url |-> <<>>,
     hasDatahash |-> FALSE, datahash |-> NoBytes, item |-> item]

\* the element throws inside the map callback: reading a property of null is a
\* TypeError, and DataDescriptor.fromJson may reject the object
DescriptorFails(item) == item.t = "null" \/ ~item.codecOk

SignableOk(list) == [k |-> "ok", list |-> list, msg |-> "", index |-> -1]
SignableError(msg, index) == [k |-> "ValidationError", list |-> <<>>, msg |-> msg, index |-> index]

\* line 119: the message of the error the map callback throws for element index
DescriptorMsg(index) == "Invalid DataDescriptor at index " \o ToString(index)

parseSignableObjects(value) ==
    LET parsed == ParseArrayField(value, "Invalid JSON for signableObjects",
                                  "signableObjects must be a JSON array.")
    IN  IF parsed.k = "absent" THEN SignableOk(<<>>)
        ELSE IF parsed.k = "ValidationError" THEN SignableError(parsed.msg, -1)
        ELSE IF \E i \in 1..Len(parsed.a) : DescriptorFails(parsed.a[i])
             THEN LET index == FirstIndex([i \in 1..Len(parsed.a) |->
                                              DescriptorFails(parsed.a[i])])
                  IN  SignableError(DescriptorMsg(index), index)
        ELSE SignableOk([i \in 1..Len(parsed.a) |-> JsonDescriptor(parsed.a[i])])

\* the result of parseStatements: undefined (present = FALSE) or a non-empty list
StatementsUndefined == [k |-> "ok", present |-> FALSE, list |-> <<>>, msg |-> "", index |-> -1]
StatementsList(list) == [k |-> "ok", present |-> TRUE, list |-> list, msg |-> "", index |-> -1]
StatementsError(msg, index) ==
    [k |-> "ValidationError", present |-> FALSE, list |-> <<>>, msg |-> msg, index |-> index]

NotAString(item) == item.t # "string"

parseStatements(value) ==
    LET parsed == ParseArrayField(value, "Invalid JSON for statements",
                                  "statements must be a JSON array of strings.")
    IN  IF parsed.k = "absent" THEN StatementsUndefined
        ELSE IF parsed.k = "ValidationError" THEN StatementsError(parsed.msg, -1)
        ELSE IF \E i \in 1..Len(parsed.a) : NotAString(parsed.a[i])
             THEN StatementsError("Statement at index must be a string.",
                                  FirstIndex([i \in 1..Len(parsed.a) |->
                                                  NotAString(parsed.a[i])]))
        ELSE IF Len(parsed.a) > 0
             THEN StatementsList([i \in 1..Len(parsed.a) |-> parsed.a[i].s])
        ELSE StatementsUndefined

\* ------------------------------------------------------------------------
\* parseOptionalIAddress
\* ------------------------------------------------------------------------

AddressUndefined == [k |-> "ok", present |-> FALSE, address |-> <<>>]
AddressObject(a) == [k |-> "ok", present |-> TRUE, address |-> a]
AddressError == [k |-> "ValidationError", present |-> FALSE, address |-> <<>>]

\* s.endsWith("@")
EndsWithAt(s) == Len(s) > 0 /\ s[Len(s)] = "@"

\* CompactIAddressObject.fromAddress keeps the cleaned string as the address;
\* the code has no handler around it, and it is taken not to throw
\* every trailing "@" is stripped, not one
RECURSIVE StripAts(_)
StripAts(s) == IF EndsWithAt(s) THEN StripAts(SubSeq(s, 1, Len(s) - 1)) ELSE s
parseOptionalIAddress_StripAll(value) ==
    IF IsNullish(value) \/ (value.t = "string" /\ value.s = <<>>) THEN AddressUndefined
    ELSE IF value.t # "string" THEN AddressError
    ELSE LET cleaned == StripAts(Trim(value.s))
         IN  IF cleaned = <<>> THEN AddressUndefined
             ELSE AddressObject(cleaned)

parseOptionalIAddress(value) ==
    IF IsNullish(value) \/ (value.t = "string" /\ value.s = <<>>) THEN AddressUndefined
    ELSE IF value.t # "string" THEN AddressError
    ELSE LET trimmed == Trim(value.s)
             cleaned == IF EndsWithAt(trimmed)
                        THEN SubSeq(trimmed, 1, Len(trimmed) - 1)
                        ELSE trimmed
         IN  IF cleaned = <<>> THEN AddressUndefined
             ELSE AddressObject(cleaned)

\* ------------------------------------------------------------------------
\* buildFlags
\* ------------------------------------------------------------------------

\* the bits of DataPacketRequestDetails
HAS_REQUEST_ID == 1
HAS_STATEMENTS == 2
HAS_SIGNATURE == 4
FOR_USERS_SIGNATURE == 8
FOR_TRANSMITTAL_TO_USER == 16
HAS_URL_FOR_DOWNLOAD == 32

\* BN.or of a flags value with one bit
BitSet(flags, bit) == (flags \div bit) % 2 = 1
Or(flags, bit) == IF BitSet(flags, bit) THEN flags ELSE flags + bit

\* two of the flags are given the same bit
buildFlags_SharedBit(payload) ==
    LET f0 == 0
        f1 == IF payload.flagHasRequestId THEN Or(f0, HAS_REQUEST_ID) ELSE f0
        f2 == IF payload.flagHasStatements THEN Or(f1, HAS_STATEMENTS) ELSE f1
        f3 == IF payload.flagHasSignature THEN Or(f2, HAS_SIGNATURE) ELSE f2
        f4 == IF payload.flagForUsersSignature THEN Or(f3, FOR_USERS_SIGNATURE) ELSE f3
        f5 == IF payload.flagForTransmittalToUser THEN Or(f4, HAS_STATEMENTS) ELSE f4
        f6 == IF payload.flagHasUrlForDownload THEN Or(f5, HAS_URL_FOR_DOWNLOAD) ELSE f5
    IN  f6

\* lines 59-82: one `if (payload.flagX) flags = flags.or(X)` per flag
buildFlags(payload) ==
    LET f0 == 0
        f1 == IF payload.flagHasRequestId THEN Or(f0, HAS_REQUEST_ID) ELSE f0
        f2 == IF payload.flagHasStatements THEN Or(f1, HAS_STATEMENTS) ELSE f1
        f3 == IF payload.flagHasSignature THEN Or(f2, HAS_SIGNATURE) ELSE f2
        f4 == IF payload.flagForUsersSignature THEN Or(f3, FOR_USERS_SIGNATURE) ELSE f3
        f5 == IF payload.flagForTransmittalToUser THEN Or(f4, FOR_TRANSMITTAL_TO_USER) ELSE f4
        f6 == IF payload.flagHasUrlForDownload THEN Or(f5, HAS_URL_FOR_DOWNLOAD) ELSE f5
    IN  f6

\* ------------------------------------------------------------------------
\* buildUrlDataDescriptor
\* ------------------------------------------------------------------------

DescriptorOk(d) == [k |-> "ok", d |-> d]
DescriptorError == [k |-> "ValidationError", d |-> JsonDescriptor(NoItem)]

buildUrlDataDescriptor(url, dataHash) ==
    LET dataHashBuffer == validateDataHash(dataHash)
    IN  IF dataHashBuffer.k = "ValidationError" THEN DescriptorError
        ELSE IF dataHashBuffer.k = "buffer"
             THEN DescriptorOk(UrlDescriptor(url, TRUE, dataHashBuffer.buf))
        ELSE DescriptorOk(UrlDescriptor(url, FALSE, NoBytes))

\* ------------------------------------------------------------------------
\* Helpers of ../utils (requireString, parseJsonField, getRpcConfig)
\* ------------------------------------------------------------------------

\* requireString: the trimmed string, or a ValidationError when the value is
\* not a string or is empty after trimming
requireString(value) ==
    IF value.t # "string" \/ Trim(value.s) = <<>>
    THEN [k |-> "ValidationError", s |-> <<>>]
    ELSE [k |-> "ok", s |-> Trim(value.s)]

\* parseJsonField(value, fieldName, required): an already-parsed value is
\* returned as it is, a string is JSON-parsed; nothing supplied is a
\* ValidationError for a required field and undefined otherwise
JsonFieldUndefined == [k |-> "undefined", a |-> <<>>]
JsonFieldError == [k |-> "ValidationError", a |-> <<>>]

parseJsonField(value, required) ==
    IF IsNullish(value) \/ (value.t = "string" /\ value.s = <<>>)
    THEN IF required THEN JsonFieldError ELSE JsonFieldUndefined
    ELSE IF value.t = "string"
         THEN LET parsed == JsonParse(value.s)
              IN  IF parsed.k = "SyntaxError" THEN JsonFieldError ELSE parsed
    ELSE IF value.t = "array" THEN JsonArray(value.a)
    ELSE JsonNotArray

\* ------------------------------------------------------------------------
\* The details object
\* ------------------------------------------------------------------------

\* the parameters handed to new DataPacketRequestDetails: statements and
\* requestID are keys of the object only when hasStatements / hasRequestID;
\* no line of either handler gives the object a signature key
DetailsParams(flags, signableObjects, hasStatements, statements, hasRequestID, requestID) ==
    [made |-> TRUE, flags |-> flags, signableObjects |-> signableObjects,
     hasStatements |-> hasStatements, statements |-> statements,
     hasRequestID |-> hasRequestID, requestID |-> requestID,
     hasSignature |-> FALSE]
NoDetails ==
    [made |-> FALSE, flags |-> 0, signableObjects |-> <<>>,
     hasStatements |-> FALSE, statements |-> <<>>,
     hasRequestID |-> FALSE, requestID |-> <<>>,
     hasSignature |-> FALSE]

\* the statements key is always set, to an empty list when there are none
AssembleDetails_AlwaysStatements(flags, signableObjects, statements, requestId) ==
    DetailsParams(flags, signableObjects,
                  TRUE, IF statements.present THEN statements.list ELSE <<>>,
                  requestId.present, IF requestId.present THEN requestId.address ELSE <<>>)

\* lines 202-215 of buildDataPacketRequest and 353-366 of signDataPacket:
\* statements is the result of parseStatements, requestId of parseOptionalIAddress
AssembleDetails(flags, signableObjects, statements, requestId) ==
    LET withStatements == statements.present /\ Len(statements.list) > 0
        withRequestId == requestId.present
    IN  DetailsParams(flags, signableObjects,
                      withStatements, IF withStatements THEN statements.list ELSE <<>>,
                      withRequestId, IF withRequestId THEN requestId.address ELSE <<>>)

\* the generic signed-request envelope of Path A
GenericRequest(details, signingId, redirects) ==
    [details |-> details, signed |-> TRUE, signingId |-> signingId, redirects |-> redirects]
NoRequest == [details |-> NoDetails, signed |-> FALSE, signingId |-> <<>>, redirects |-> <<>>]

buildDataPacketRequest(signingId, flags, signableObjects, statements, requestId, redirects) ==
    GenericRequest(AssembleDetails(flags, signableObjects, statements, requestId),
                   signingId, redirects)

\* ------------------------------------------------------------------------
\* The synchronous part of the two handlers, up to the call of the signer
\* ------------------------------------------------------------------------

\* what the code before the signer call ends with: a thrown error (k is
\* "ValidationError" or "Error") or the object to sign (k = "ok")
Thrown(kind, msg) == [k |-> kind, msg |-> msg, request |-> NoRequest]
ToSign(request) == [k |-> "ok", msg |-> "", request |-> request]

\* the download URL is not trimmed
DownloadUrlOf_Untrimmed(payload) ==
    IF payload.downloadUrl.t = "string" THEN payload.downloadUrl.s ELSE <<>>

\* lines 243 and 341: the trimmed download URL, "" when it is not a string
DownloadUrlOf(payload) ==
    IF payload.downloadUrl.t = "string" THEN Trim(payload.downloadUrl.s) ELSE <<>>

\* lines 247 and 345: the trimmed data hash, undefined when it is not a string
DataHashOf(payload) ==
    IF payload.dataHash.t = "string" THEN JsString(Trim(payload.dataHash.s)) ELSE JsUndefined

\* lines 242-249 and 340-347: the URL descriptor alone
UrlBranch(payload) ==
    LET downloadUrl == DownloadUrlOf(payload)
        dataHash == DataHashOf(payload)
    IN  IF downloadUrl = <<>>
        THEN SignableError("Download URL is required when FLAG_HAS_URL_FOR_DOWNLOAD is set.", -1)
        ELSE LET urlDescriptor == buildUrlDataDescriptor(downloadUrl, dataHash)
             IN  IF urlDescriptor.k = "ValidationError"
                 THEN SignableError("Data hash must be exactly 32 bytes (64 hex characters).", -1)
                 ELSE SignableOk(<<urlDescriptor.d>>)

\* the URL descriptor is appended to the submitted objects
SignableObjectsOf_Merged(payload) ==
    LET submitted == parseSignableObjects(payload.signableObjects)
        url == UrlBranch(payload)
    IN  IF ~payload.flagHasUrlForDownload THEN submitted
        ELSE IF url.k # "ok" THEN url
        ELSE IF submitted.k # "ok" THEN submitted
        ELSE SignableOk(submitted.list \o url.list)

\* lines 242-252 and 340-350: the signable objects of the request
SignableObjectsOf(payload) ==
    IF payload.flagHasUrlForDownload
    THEN UrlBranch(payload)
    ELSE parseSignableObjects(payload.signableObjects)

ExclusiveMsg == "'Has Signature' and 'For User's Signature' are mutually exclusive."

\* the check reads the wrong second flag
SignatureFlagsConflict_WrongFlag(payload) ==
    payload.flagHasSignature /\ payload.flagForTransmittalToUser

\* lines 232 and 330: the two signature flags are both set
SignatureFlagsConflict(payload) == payload.flagHasSignature /\ payload.flagForUsersSignature

\* an empty array of redirects is let through
RedirectsRejected_EmptyAllowed(redirects) == redirects.k # "array"

\* line 260: !Array.isArray(redirects) || redirects.length === 0
RedirectsRejected(redirects) == redirects.k # "array" \/ Len(redirects.a) = 0

\* generateDataPacketQr, lines 227-279; getRpcConfig() reads the configuration
\* fixed at startup and is taken to succeed
GenerateSync(payload) ==
    LET signingId == requireString(payload.signingId)
        statements == parseStatements(payload.statements)
        requestId == parseOptionalIAddress(payload.requestId)
        signableObjects == SignableObjectsOf(payload)
        redirects == parseJsonField(payload.redirects, TRUE)
    IN  IF signingId.k # "ok" THEN Thrown("ValidationError", "signingId is required.")
        ELSE IF SignatureFlagsConflict(payload)
             THEN Thrown("ValidationError", ExclusiveMsg)
        ELSE IF statements.k # "ok" THEN Thrown("ValidationError", statements.msg)
        ELSE IF requestId.k # "ok" THEN Thrown("ValidationError", "requestId must be a string.")
        ELSE IF signableObjects.k # "ok" THEN Thrown("ValidationError", signableObjects.msg)
        ELSE IF redirects.k = "ValidationError"
             THEN Thrown("ValidationError", "redirects is required.")
        ELSE IF RedirectsRejected(redirects)
             THEN Thrown("ValidationError", "redirects must be a non-empty JSON array.")
        ELSE IF payload.flagHasStatements /\ (~statements.present \/ Len(statements.list) = 0)
             THEN Thrown("ValidationError", "Statements are required when FLAG_HAS_STATEMENTS is set.")
        ELSE IF payload.flagHasRequestId /\ ~requestId.present
             THEN Thrown("ValidationError", "Request ID is required when FLAG_HAS_REQUEST_ID is set.")
        ELSE ToSign(buildDataPacketRequest(signingId.s, buildFlags(payload),
                                           signableObjects.list, statements, requestId,
                                           redirects.a))

\* signDataPacket, lines 325-369; Path B signs the details alone, so the
\* envelope of the result has no redirects
SignSync(payload) ==
    LET signingId == requireString(payload.signingId)
        statements == parseStatements(payload.statements)
        requestId == parseOptionalIAddress(payload.requestId)
        signableObjects == SignableObjectsOf(payload)
    IN  IF signingId.k # "ok" THEN Thrown("ValidationError", "signingId is required.")
        ELSE IF SignatureFlagsConflict(payload)
             THEN Thrown("ValidationError", ExclusiveMsg)
        ELSE IF statements.k # "ok" THEN Thrown("ValidationError", statements.msg)
        ELSE IF requestId.k # "ok" THEN Thrown("ValidationError", "requestId must be a string.")
        ELSE IF signableObjects.k # "ok" THEN Thrown("ValidationError", signableObjects.msg)
        ELSE ToSign([details |-> AssembleDetails(buildFlags(payload), signableObjects.list,
                                                 statements, requestId),
                     signed |-> FALSE, signingId |-> signingId.s, redirects |-> <<>>])

\* ------------------------------------------------------------------------
\* The payloads the requests are drawn from
\* ------------------------------------------------------------------------

\* the longest array of a payload field
MaxItems == 1

IAddr == <<"i", "1">>
Url == <<"u">>
AnObject == JsonItem("object", <<>>, TRUE)
ABadObject == JsonItem("object", <<>>, FALSE)
AStatement == JsonItem("string", <<"s">>, TRUE)
ARedirect == JsonItem("object", <<"1">>, TRUE)

\* a 64-character hex string in mixed case, and malformed ones
MixedCaseHash == [i \in 1..HashHexLen |-> IF i % 2 = 1 THEN "A" ELSE "b"]
ZeroHash == [i \in 1..HashHexLen |-> "0"]

\* the arrays of up to n elements drawn from items
RECURSIVE ArraysUpTo(_, _)
ArraysUpTo(items, n) ==
    IF n = 0 THEN {<<>>}
    ELSE LET shorter == ArraysUpTo(items, n - 1)
         IN  shorter \cup {Append(a, it) : a \in shorter, it \in items}

SigningIds == {JsUndefined, JsString(IAddr)}
SignableInputs ==
    {FieldUndefined} \cup {FieldArray(a) : a \in ArraysUpTo({AnObject}, MaxItems)}
StatementInputs ==
    {FieldUndefined} \cup {FieldArray(a) : a \in ArraysUpTo({AStatement}, MaxItems)}
RequestIdInputs == {JsUndefined, JsString(<<" ", "@">>), JsString(IAddr \o <<"@">>)}
RedirectInputs ==
    {FieldUndefined, FieldNumber, FieldArray(<<>>), FieldArray(<<ARedirect>>)}
DownloadUrlInputs ==
    {JsUndefined, JsNumber, JsString(<<" ">>), JsString(<<" ">> \o Url \o <<" ">>)}
DataHashInputs ==
    {JsUndefined, JsString(<<" ">>), JsString(<<"z", "z">>),
     JsString(<<" ">> \o MixedCaseHash \o <<"\n">>)}

\* GenerateDataPacketQrPayload; SignDataPacketPayload is the same type without
\* redirects
PayloadsWith(redirectInputs) ==
    [signingId : SigningIds,
     flagHasRequestId : BOOLEAN, flagHasStatements : BOOLEAN,
     flagHasSignature : BOOLEAN, flagForUsersSignature : BOOLEAN,
     flagForTransmittalToUser : BOOLEAN, flagHasUrlForDownload : BOOLEAN,
     signableObjects : SignableInputs, statements : StatementInputs,
     requestId : RequestIdInputs, redirects : redirectInputs,
     downloadUrl : DownloadUrlInputs, dataHash : DataHashInputs]
GeneratePayloads == PayloadsWith(RedirectInputs)
SignPayloads == PayloadsWith({FieldUndefined})
NoPayload ==
    [signingId |-> JsUndefined,
     flagHasRequestId |-> FALSE, flagHasStatements |-> FALSE,
     flagHasSignature |-> FALSE, flagForUsersSignature |-> FALSE,
     flagForTransmittalToUser |-> FALSE, flagHasUrlForDownload |-> FALSE,
     signableObjects |-> FieldUndefined, statements |-> FieldUndefined,
     requestId |-> JsUndefined, redirects |-> FieldUndefined,
     downloadUrl |-> JsUndefined, dataHash |-> JsUndefined]

\* ------------------------------------------------------------------------
\* The requests
\* ------------------------------------------------------------------------

VARIABLES
    pc,         \* "idle", "awaitSigner", "awaitQr" or "responded"
    path,       \* "A" (generateDataPacketQr), "B" (signDataPacket) or "none"
    payload,    \* req.body of the request being handled
    toSign,     \* reqToSign (Path A) or the details (Path B)
    rpcCalls,   \* how often the signer was invoked for this request
    rpcArg,     \* what the signer was invoked with
    response,   \* what res.json / res.status(...).json sent
    responses,  \* how many responses were sent for the request
    signerReply, \* how the call of the signer ended, "none" before it has
    caught,     \* the error the catch block of the handler received
    hashIn,     \* the argument of a call of validateDataHash
    hashOut,    \* what the call returned or threw
    hashHex,    \* the hex encoding of a returned buffer
    flagsIn,    \* the six flag fields of a payload given to buildFlags
    flagsOut,   \* what buildFlags returned for flagsIn
    flagsLeft,  \* the selected bits not yet OR-ed into flagsAcc
    flagsOrder, \* the bits OR-ed into flagsAcc, in the order they were OR-ed
    flagsAcc,   \* the value the bits of flagsOrder were OR-ed into
    reqs        \* the requests in flight at once: the locals of each handler call

requestVars ==
    <<pc, path, payload, toSign, rpcCalls, rpcArg, response, responses, signerReply, caught>>
hashVars == <<hashIn, hashOut, hashHex>>
flagVars == <<flagsIn, flagsOut, flagsLeft, flagsOrder, flagsAcc>>
functionVars == <<hashVars, flagVars>>

\* ------------------------------------------------------------------------
\* The DataPacket form of the page (src/public/app.js, setupDataPacketForm)
\* ------------------------------------------------------------------------

\* the value of the signable-objects textarea: what the user typed, or the
\* preview JSON.stringify builds from the download URL and the data hash
Typed(s) == [kind |-> "typed", s |-> s, url |-> "", datahash |-> ""]
Preview(url, datahash) == [kind |-> "preview", s |-> "", url |-> url, datahash |-> datahash]

\* what the user can type into the signable objects, the download URL and
\* the data hash; "h" stands for 64 hex characters. The statements and the
\* request id, and the three flags that are not modelled, only take part
\* through listeners like those of these inputs: each input event and each
\* change event ends in resetSignature
SignableTexts == {"", "[o]"}
DownloadUrls == {"", "u"}
Datahashes == {"", "h"}

\* String.prototype.trim on the values above
TrimText(s) == IF s = " " THEN "" ELSE s

\* the payload of a sign request, and the signature the server returns for it
NoSignPayload ==
    [flagHasSignature |-> FALSE, flagForUsersSignature |-> FALSE,
     flagHasUrlForDownload |-> FALSE, signableObjects |-> Typed(""),
     downloadUrl |-> "", dataHash |-> ""]
SignatureNull == [k |-> "null", of |-> NoSignPayload]
SignatureUndefined == [k |-> "undefined", of |-> NoSignPayload]
SignatureData(p) == [k |-> "signature", of |-> p]

\* the elements and closure variables of setupDataPacketForm (lines 1060-1084)
\* as the page loads them; log is the history of dataPacketSignatureData:
\* "signed" after a sign response stored a signature, "reset" once that
\* signature was discarded
FormAtLoad ==
    [flagHasSignatureCheckbox |-> FALSE,
     flagForUsersSignatureCheckbox |-> FALSE,
     flagHasUrlCheckbox |-> FALSE,
     downloadUrlInput |-> "",
     datahashInput |-> "",
     signableObjectsTextarea |-> Typed(""),
     readOnly |-> FALSE,
     urlModeAttribute |-> FALSE,
     originalSignableObjectsValue |-> Typed(""),
     dataPacketSignatureData |-> SignatureNull,
     log |-> "none"]

\* resetSignature leaves the stored signature in place
resetSignature_Keeps(f) == f

\* lines 1099-1103; the signature result that is hidden and cleared is display
\* only
resetSignature(f) ==
    [f EXCEPT !.dataPacketSignatureData = SignatureNull,
              !.log = IF f.dataPacketSignatureData.k = "signature" THEN "reset" ELSE @]

\* lines 1106-1128
updateSignableObjectsWithUrl(f) ==
    LET url == TrimText(f.downloadUrlInput)
        datahash == TrimText(f.datahashInput)
    IN  IF url = ""
        THEN [f EXCEPT !.signableObjectsTextarea = Typed("[]")]
        ELSE [f EXCEPT !.signableObjectsTextarea = Preview(url, datahash)]

\* checking 'Has Signature' leaves 'For User's Signature' as it is
handleSignatureFlagExclusivity_OneWay(f, changedCheckbox) ==
    IF changedCheckbox = "flagForUsersSignatureCheckbox" /\ f.flagForUsersSignatureCheckbox
    THEN resetSignature([f EXCEPT !.flagHasSignatureCheckbox = FALSE])
    ELSE f

\* lines 1139-1150
handleSignatureFlagExclusivity(f, changedCheckbox) ==
    IF changedCheckbox = "flagHasSignatureCheckbox" /\ f.flagHasSignatureCheckbox
    THEN [f EXCEPT !.flagForUsersSignatureCheckbox = FALSE]
    ELSE IF changedCheckbox = "flagForUsersSignatureCheckbox"
            /\ f.flagForUsersSignatureCheckbox
         THEN resetSignature([f EXCEPT !.flagHasSignatureCheckbox = FALSE])
         ELSE f

\* the textarea value is saved on every call made in URL mode
toggleConditionalFields_AlwaysSaves(f) ==
    LET g == IF ~f.flagHasSignatureCheckbox THEN resetSignature(f) ELSE f
        urlMode == g.flagHasUrlCheckbox
    IN  IF urlMode
        THEN updateSignableObjectsWithUrl(
                 [g EXCEPT !.readOnly = TRUE,
                           !.originalSignableObjectsValue = g.signableObjectsTextarea,
                           !.urlModeAttribute = TRUE])
        ELSE IF g.urlModeAttribute
             THEN [g EXCEPT !.readOnly = FALSE,
                            !.signableObjectsTextarea = g.originalSignableObjectsValue,
                            !.urlModeAttribute = FALSE]
             ELSE [g EXCEPT !.readOnly = FALSE]

\* lines 1153-1199; the hidden attributes of the groups, the tag and the help
\* text are display only
toggleConditionalFields(f) ==
    LET g == IF ~f.flagHasSignatureCheckbox THEN resetSignature(f) ELSE f
        urlMode == g.flagHasUrlCheckbox
    IN  IF urlMode
        THEN updateSignableObjectsWithUrl(
                 IF ~g.urlModeAttribute
                 THEN [g EXCEPT !.readOnly = TRUE,
                                !.originalSignableObjectsValue = g.signableObjectsTextarea,
                                !.urlModeAttribute = TRUE]
                 ELSE [g EXCEPT !.readOnly = TRUE])
        ELSE IF g.urlModeAttribute
             THEN [g EXCEPT !.readOnly = FALSE,
                            !.signableObjectsTextarea = g.originalSignableObjectsValue,
                            !.urlModeAttribute = FALSE]
             ELSE [g EXCEPT !.readOnly = FALSE]

\* lines 1248-1249: the form once setupDataPacketForm has run
FormLoaded == toggleConditionalFields(FormAtLoad)

\* the client's parseJsonField (lines 44-58) throws for text that is not JSON
ClientJsonInvalid(text) == text.kind = "typed" /\ text.s = "{"

\* lines 1289-1340: the payload the sign handler builds from the form, or the
\* error it throws; the signing id of the page header is taken to be set, and
\* `x.trim() || undefined` is the trimmed text, "" standing for undefined
SignPayloadOf(f) ==
    LET downloadUrl == TrimText(f.downloadUrlInput)
        dataHash == TrimText(f.datahashInput)
    IN  IF ClientJsonInvalid(f.signableObjectsTextarea)
        THEN [k |-> "Error", msg |-> "Invalid JSON in Signable Objects JSON", payload |-> NoSignPayload]
        ELSE IF f.flagHasUrlCheckbox /\ downloadUrl = ""
        THEN [k |-> "Error", msg |-> "Download URL is required when 'Has URL for Download' flag is checked.",
              payload |-> NoSignPayload]
        ELSE IF dataHash # "" /\ dataHash # "h"
        THEN [k |-> "Error", msg |-> "Data hash must be exactly 32 bytes (64 hex characters).",
              payload |-> NoSignPayload]
        ELSE [k |-> "ok", msg |-> "",
              payload |-> [flagHasSignature |-> f.flagHasSignatureCheckbox,
                           flagForUsersSignature |-> f.flagForUsersSignatureCheckbox,
                           flagHasUrlForDownload |-> f.flagHasUrlCheckbox,
                           signableObjects |-> f.signableObjectsTextarea,
                           downloadUrl |-> downloadUrl,
                           dataHash |-> dataHash]]

\* the submit handler sends the request whether or not a signature is stored
SignatureMissing_Never(f) == FALSE

\* line 1385: flagHasSignature && !dataPacketSignatureData
SignatureMissing(f) ==
    f.flagHasSignatureCheckbox /\ f.dataPacketSignatureData.k # "signature"

\* the sign handler: idle, or suspended at its fetch ("fetch") or at
\* response.json() ("json") with the payload it sent
NoCall == [pc |-> "idle", payload |-> NoSignPayload]

\* the submit handler: idle or suspended likewise, with the flagHasSignature of
\* the request it sent to /api/generate-data-packet-qr; signed tells whether a
\* sign response had stored a signature, not reset since, when the request left
NoSubmit == [pc |-> "idle", flagHasSignature |-> FALSE, signed |-> FALSE]
GenerateRequestOf(f) ==
    [pc |-> "fetch", flagHasSignature |-> f.flagHasSignatureCheckbox,
     signed |-> f.log = "signed"]

\* the textarea value at the moment URL mode was last switched on, and whether
\* another change event or an edit arrived while the mode was on
NotSwitchedOn == [on |-> FALSE, value |-> Typed(""), changed |-> FALSE]

\* ------------------------------------------------------------------------
\* decimalToSatoshis (src/public/app.js)
\* ------------------------------------------------------------------------

SATOSHI_DECIMALS == 8

DecimalDigits == <<"0", "1", "2", "3", "4", "5", "6", "7", "8", "9">>
IsDigit(c) == \E i \in 1..10 : DecimalDigits[i] = c
AllDigits(s) == s # <<>> /\ \A i \in 1..Len(s) : IsDigit(s[i])

\* /^\d+(\.\d+)?$/
MatchesAmount(s) ==
    \/ AllDigits(s)
    \/ \E d \in 1..Len(s) :
          /\ s[d] = "."
          /\ AllDigits(SubSeq(s, 1, d - 1))
          /\ AllDigits(SubSeq(s, d + 1, Len(s)))

\* trimmed.split("."), for a string the pattern matched: parts[0] and parts[1] || ""
HasDot(s) == \E d \in 1..Len(s) : s[d] = "."
DotAt(s) == CHOOSE d \in 1..Len(s) : s[d] = "."
WholePartOf(s) == IF HasDot(s) THEN SubSeq(s, 1, DotAt(s) - 1) ELSE s
FracPartOf(s) == IF HasDot(s) THEN SubSeq(s, DotAt(s) + 1, Len(s)) ELSE <<>>

\* String.prototype.padEnd and padStart
PadEnd(s, n, c) == s \o [i \in 1..(n - Len(s)) |-> c]
PadStart(s, n, c) == [i \in 1..(n - Len(s)) |-> c] \o s

\* replace(/^0+/, "")
RECURSIVE StripLeadingZeros(_)
StripLeadingZeros(s) ==
    IF s # <<>> /\ Head(s) = "0" THEN StripLeadingZeros(Tail(s)) ELSE s

SatoshisNotCalled == [k |-> "notCalled", s |-> <<>>, msg |-> ""]
Satoshis(s) == [k |-> "ok", s |-> s, msg |-> ""]
SatoshisError(msg) == [k |-> "Error", s |-> <<>>, msg |-> msg]

\* the fractional part is padded at its start
decimalToSatoshis_PadStart(input) ==
    LET trimmed == Trim(input)
        combined == StripLeadingZeros(WholePartOf(trimmed)
                        \o PadStart(FracPartOf(trimmed), SATOSHI_DECIMALS, "0"))
    IN  IF ~MatchesAmount(trimmed)
        THEN SatoshisError("Amount must be a positive number (e.g. 0.5 or 100).")
        ELSE IF Len(FracPartOf(trimmed)) > SATOSHI_DECIMALS
        THEN SatoshisError("Amount cannot have more than 8 decimal places.")
        ELSE IF combined = <<>>
        THEN SatoshisError("Amount must be greater than zero.")
        ELSE Satoshis(combined)

\* lines 105-130; `x.replace(/^0+/, "") || "0"` is "0" exactly when the
\* stripped string is empty
decimalToSatoshis(input) ==
    LET trimmed == Trim(input)
        combined == StripLeadingZeros(WholePartOf(trimmed)
                        \o PadEnd(FracPartOf(trimmed), SATOSHI_DECIMALS, "0"))
    IN  IF ~MatchesAmount(trimmed)
        THEN SatoshisError("Amount must be a positive number (e.g. 0.5 or 100).")
        ELSE IF Len(FracPartOf(trimmed)) > SATOSHI_DECIMALS
        THEN SatoshisError("Amount cannot have more than 8 decimal places.")
        ELSE IF combined = <<>>
        THEN SatoshisError("Amount must be greater than zero.")
        ELSE Satoshis(combined)

VARIABLES
    addrIn,     \* the argument of a call of parseOptionalIAddress
    addrOut     \* what the call returned or threw

VARIABLES
    jsonIn,     \* the value given to parseSignableObjects and parseStatements
    jsonTwin,   \* for an array jsonIn: a string holding a JSON encoding of it
    jsonOut,    \* what the two parsers made of jsonIn
    twinOut     \* what the two parsers made of jsonTwin

VARIABLES
    form,            \* the elements and closure variables of the DataPacket form
    signCall,        \* the sign button's click handler: where it is suspended, its payload
    submitCall,      \* the form's submit handler: where it is suspended
    valueAtUrlOn,    \* the textarea value when URL mode was last switched on
    satIn,           \* the argument of a call of decimalToSatoshis
    satOut           \* what the call returned or threw

addrVars == <<addrIn, addrOut>>
jsonVars == <<jsonIn, jsonTwin, jsonOut, twinOut>>
formVars == <<form, signCall, submitCall, valueAtUrlOn>>
satVars == <<satIn, satOut>>
clientVars == <<formVars, satVars>>
extraVars == <<addrVars, jsonVars, clientVars>>
otherVars == <<functionVars, reqs, extraVars>>
vars == <<requestVars, otherVars>>

\* the buffer converted with toString() and no encoding
MessageHex_Utf8(details) == [encoding |-> "utf8", of |-> details]

\* details.toBuffer().toString("hex"): the canonical bytes, hex-encoded
MessageHex(details) == [encoding |-> "hex", of |-> details]
NoMessage == [encoding |-> "", of |-> NoDetails]

\* the argument of the signer: Path A signs the envelope (signRequest), Path B
\* sends {address, messagehex} to signdata
RpcArg(cmd, address, message, redirects) ==
    [cmd |-> cmd, address |-> address, messagehex |-> message, redirects |-> redirects]
NoRpcArg == RpcArg("", <<>>, NoMessage, <<>>)

NoResponse ==
    [sent |-> FALSE, status |-> 0, error |-> "",
     deeplink |-> FALSE, qrDataUrl |-> FALSE,
     signatureData |-> FALSE, messageHex |-> NoMessage]
\* the catch block without the instanceof test: every error is a 500
ErrorResponse_AlwaysServerError(kind, msg) ==
    [NoResponse EXCEPT !.sent = TRUE, !.status = 500, !.error = msg]

\* the catch block with the instanceof test the wrong way round
ErrorResponse_Inverted(kind, msg) ==
    [NoResponse EXCEPT !.sent = TRUE,
                       !.status = IF kind = "ValidationError" THEN 500 ELSE 400,
                       !.error = msg]

\* the catch blocks: 400 for a ValidationError, 500 for anything else
ErrorResponse(kind, msg) ==
    [NoResponse EXCEPT !.sent = TRUE,
                       !.status = IF kind = "ValidationError" THEN 400 ELSE 500,
                       !.error = msg]
QrResponse == [NoResponse EXCEPT !.sent = TRUE, !.status = 200,
                                 !.deeplink = TRUE, !.qrDataUrl = TRUE]
SignatureResponse(message) ==
    [NoResponse EXCEPT !.sent = TRUE, !.status = 200,
                       !.signatureData = TRUE, !.messageHex = message]

\* the `error` of a catch block: its class and its message
Caught(kind, msg) == [kind |-> kind, msg |-> msg]
NothingCaught == Caught("none", "")

NotCalled == [k |-> "notCalled", buf |-> <<>>]

NoHashCall ==
    /\ hashIn = JsUndefined
    /\ hashOut = NotCalled
    /\ hashHex = <<>>

\* no flags selected
NoFlags ==
    [flagHasRequestId |-> FALSE, flagHasStatements |-> FALSE,
     flagHasSignature |-> FALSE, flagForUsersSignature |-> FALSE,
     flagForTransmittalToUser |-> FALSE, flagHasUrlForDownload |-> FALSE]
FlagsNotBuilt == [built |-> FALSE, flags |-> 0]
FlagsBuilt(flags) == [built |-> TRUE, flags |-> flags]

NoFlagCall ==
    /\ flagsIn = NoFlags
    /\ flagsOut = FlagsNotBuilt
    /\ flagsLeft = {}
    /\ flagsOrder = <<>>
    /\ flagsAcc = 0

\* how many requests are in flight at once
NumRequests == 2
Requests == 1..NumRequests

\* the locals of one call of a handler; outcomes is what the signer and the
\* encoders answered to it so far
NotReceived ==
    [pc |-> "idle", path |-> "none", payload |-> NoPayload, toSign |-> NoRequest,
     rpcCalls |-> 0, rpcArg |-> NoRpcArg, response |-> NoResponse,
     outcomes |-> <<>>, caught |-> NothingCaught]
NoneReceived == reqs = [r \in Requests |-> NotReceived]

AddressNotCalled == [k |-> "notCalled", present |-> FALSE, address |-> <<>>]
NoAddressCall ==
    /\ addrIn = JsUndefined
    /\ addrOut = AddressNotCalled
\* the results of parseSignableObjects and parseStatements for one value
ParsersNotCalled == [called |-> FALSE, signable |-> SignableOk(<<>>),
                     statements |-> StatementsUndefined]
ParsersCalled(value) == [called |-> TRUE, signable |-> parseSignableObjects(value),
                         statements |-> parseStatements(value)]
NoJsonCall ==
    /\ jsonIn = FieldUndefined
    /\ jsonTwin = FieldUndefined
    /\ jsonOut = ParsersNotCalled
    /\ twinOut = ParsersNotCalled
\* the page is loaded and nothing happened on it
PageLoaded ==
    /\ form = FormLoaded
    /\ signCall = NoCall
    /\ submitCall = NoSubmit
    /\ valueAtUrlOn = NotSwitchedOn
NoSatoshisCall ==
    /\ satIn = <<>>
    /\ satOut = SatoshisNotCalled
NoExtraCall == NoAddressCall /\ NoJsonCall /\ PageLoaded /\ NoSatoshisCall

NoRequestYet ==
    /\ NoneReceived
    /\ pc = "idle"
    /\ path = "none"
    /\ payload = NoPayload
    /\ toSign = NoRequest
    /\ rpcCalls = 0
    /\ rpcArg = NoRpcArg
    /\ response = NoResponse
    /\ responses = 0
    /\ signerReply = "none"
    /\ caught = NothingCaught

Init == NoRequestYet /\ NoHashCall /\ NoFlagCall /\ NoExtraCall

\* a handler starts: everything it runs before its first await
Start(p, handler, result, arg) ==
    /\ UNCHANGED otherVars
    /\ path' = handler
    /\ payload' = p
    /\ signerReply' = "none"
    /\ IF result.k = "ok"
       THEN /\ pc' = "awaitSigner"
            /\ toSign' = result.request
            /\ rpcCalls' = 1
            /\ rpcArg' = arg
            /\ response' = NoResponse
            /\ responses' = 0
            /\ caught' = NothingCaught
       ELSE /\ pc' = "responded"
            /\ toSign' = NoRequest
            /\ rpcCalls' = 0
            /\ rpcArg' = NoRpcArg
            /\ response' = ErrorResponse(result.k, result.msg)
            /\ responses' = 1
            /\ caught' = Caught(result.k, result.msg)

\* generateDataPacketQr up to `await signRequest(...)`
GenerateDataPacketQr ==
    /\ pc = "idle"
    /\ \E p \in GeneratePayloads :
        LET result == GenerateSync(p)
        IN  Start(p, "A", result,
                  RpcArg("signRequest", result.request.signingId,
                         MessageHex(result.request.details), result.request.redirects))

\* signDataPacket up to `await verusId.interface.request(...)`
SignDataPacket ==
    /\ pc = "idle"
    /\ \E p \in SignPayloads :
        LET result == SignSync(p)
        IN  Start(p, "B", result,
                  RpcArg("signdata", result.request.signingId,
                         MessageHex(result.request.details), <<>>))

\* the one response of a request: res.json(r) at the end of the try block
Respond(r) ==
    /\ pc' = "responded"
    /\ response' = r
    /\ responses' = responses + 1
    /\ UNCHANGED <<path, payload, toSign, rpcCalls, rpcArg, caught, otherVars>>

\* a throw after the await: the catch block answers with the error
Catch(kind, msg) ==
    /\ pc' = "responded"
    /\ caught' = Caught(kind, msg)
    /\ response' = ErrorResponse(kind, msg)
    /\ responses' = responses + 1
    /\ UNCHANGED <<path, payload, toSign, rpcCalls, rpcArg, otherVars>>

\* what `await signRequest(...)` and the deeplink encoding after it can end
\* with: the signer fails, the encoder throws, or the deeplink is there
SignRequestOutcomes == {"signerFailed", "deeplinkFailed", "deeplink"}

\* signRequest settles (lines 281-295): a failure is caught as a plain Error,
\* a success goes on to the deeplink and `await QRCode.toDataURL(...)`
SignRequestReturns ==
    /\ pc = "awaitSigner" /\ path = "A"
    /\ \E outcome \in SignRequestOutcomes :
         /\ signerReply' = IF outcome = "signerFailed" THEN "failed" ELSE "signed"
         /\ IF outcome = "deeplink"
            THEN /\ pc' = "awaitQr"
                 /\ UNCHANGED <<path, payload, toSign, rpcCalls, rpcArg, response, responses,
                                caught, otherVars>>
            ELSE Catch("Error", IF outcome = "signerFailed"
                                THEN "signRequest failed"
                                ELSE "toWalletDeeplinkUri failed")

\* a failing QRCode.toDataURL is answered with the deeplink alone
QrCodeReturns_DeeplinkAlone ==
    /\ pc = "awaitQr" /\ path = "A"
    /\ UNCHANGED signerReply
    /\ \E ok \in BOOLEAN :
         IF ok THEN Respond(QrResponse)
         ELSE Respond([QrResponse EXCEPT !.qrDataUrl = FALSE])

\* QRCode.toDataURL settles (lines 291-297)
QrCodeReturns ==
    /\ pc = "awaitQr" /\ path = "A"
    /\ UNCHANGED signerReply
    /\ \E ok \in BOOLEAN :
         IF ok THEN Respond(QrResponse) ELSE Catch("Error", "QRCode failed")

\* the replies of signdata (lines 383-407): the request rejects, an error
\* envelope, a result without a string signature, a signature that
\* VerifiableSignatureData.fromCLIJson cannot convert, or a signature
SigndataReplies == {"rejected", "error", "noSignature", "unconvertible", "signature"}

\* the most calls of the signer a retrying handler would make
MaxAttempts == 2

\* a rejected signdata request is sent again
SigndataReturns_RetryOnReject ==
    /\ pc = "awaitSigner" /\ path = "B"
    /\ \E reply \in SigndataReplies :
         /\ signerReply' = reply
         /\ CASE reply = "rejected" /\ rpcCalls < MaxAttempts ->
                   /\ rpcCalls' = rpcCalls + 1
                   /\ UNCHANGED <<pc, path, payload, toSign, rpcArg, response, responses,
                                  caught, otherVars>>
              [] reply = "signature" -> Respond(SignatureResponse(rpcArg.messagehex))
              [] OTHER -> Catch("Error", "RPC signdata failed.")

SigndataReturns ==
    /\ pc = "awaitSigner" /\ path = "B"
    /\ \E reply \in SigndataReplies :
         /\ signerReply' = reply
         /\ CASE reply = "rejected" -> Catch("Error", "request failed")
              [] reply = "error" -> Catch("Error", "RPC signdata failed.")
              [] reply = "noSignature" ->
                   Catch("Error", "RPC signdata returned no valid signature.")
              [] reply = "unconvertible" -> Catch("Error", "fromCLIJson failed")
              [] reply = "signature" -> Respond(SignatureResponse(rpcArg.messagehex))

Next ==
    \/ GenerateDataPacketQr
    \/ SignDataPacket
    \/ SignRequestReturns
    \/ QrCodeReturns
    \/ SigndataReturns

Spec == Init /\ [][Next]_vars

\* ------------------------------------------------------------------------
\* Calls of validateDataHash on its own
\* ------------------------------------------------------------------------

\* how far the length of an argument is from HashHexLen, and how much white
\* space surrounds it
MaxOff == 1
MaxPad == 1

\* n characters, all d except for c at position k
OneOdd(n, k, c, d) == [i \in 1..n |-> IF i = k THEN c ELSE d]

HashLengths == {0} \cup ((HashHexLen - MaxOff)..(HashHexLen + MaxOff))
HashBodies ==
    {OneOdd(n, k, c, d) : n \in HashLengths, k \in {1, 2, HashHexLen},
                          c \in {"0", "9", "a", "F", "g", " "}, d \in {"0", "f", "B", "z"}}
Paddings == ArraysUpTo({" ", "\n"}, MaxPad)
HashArguments ==
    {JsUndefined} \cup {JsString(l \o b \o r) : l \in Paddings, b \in HashBodies, r \in Paddings}

InitHash ==
    /\ NoRequestYet
    /\ hashIn \in HashArguments
    /\ hashOut = NotCalled
    /\ hashHex = <<>>
    /\ NoFlagCall
    /\ NoExtraCall

\* validateDataHash(hashIn)
ValidateDataHash ==
    /\ hashOut = NotCalled
    /\ hashOut' = validateDataHash(hashIn)
    /\ UNCHANGED <<hashIn, hashHex, requestVars, flagVars, reqs, extraVars>>

\* buf.toString('hex') on the buffer the call returned
EncodeHex ==
    /\ hashOut.k = "buffer"
    /\ hashHex = <<>>
    /\ hashHex' = BufferToHex(hashOut.buf)
    /\ UNCHANGED <<hashIn, hashOut, requestVars, flagVars, reqs, extraVars>>

NextHash == ValidateDataHash \/ EncodeHex

SpecHash == InitHash /\ [][NextHash]_vars

\* ------------------------------------------------------------------------
\* Calls of buildFlags on its own, and the same bits OR-ed in any order
\* ------------------------------------------------------------------------

\* the six boolean fields buildFlags reads
FlagInputs ==
    [flagHasRequestId : BOOLEAN, flagHasStatements : BOOLEAN,
     flagHasSignature : BOOLEAN, flagForUsersSignature : BOOLEAN,
     flagForTransmittalToUser : BOOLEAN, flagHasUrlForDownload : BOOLEAN]

\* the bits buildFlags ORs in for a payload: one bit per flag that is set
SelectedBits(p) ==
    (IF p.flagHasRequestId THEN {HAS_REQUEST_ID} ELSE {})
    \cup (IF p.flagHasStatements THEN {HAS_STATEMENTS} ELSE {})
    \cup (IF p.flagHasSignature THEN {HAS_SIGNATURE} ELSE {})
    \cup (IF p.flagForUsersSignature THEN {FOR_USERS_SIGNATURE} ELSE {})
    \cup (IF p.flagForTransmittalToUser THEN {FOR_TRANSMITTAL_TO_USER} ELSE {})
    \cup (IF p.flagHasUrlForDownload THEN {HAS_URL_FOR_DOWNLOAD} ELSE {})

InitFlags ==
    /\ NoRequestYet
    /\ NoHashCall
    /\ flagsIn \in FlagInputs
    /\ flagsOut = FlagsNotBuilt
    /\ flagsLeft = SelectedBits(flagsIn)
    /\ flagsOrder = <<>>
    /\ flagsAcc = 0
    /\ NoExtraCall

\* buildFlags(flagsIn)
BuildFlags ==
    /\ ~flagsOut.built
    /\ flagsOut' = FlagsBuilt(buildFlags(flagsIn))
    /\ UNCHANGED <<flagsIn, flagsLeft, flagsOrder, flagsAcc, requestVars, hashVars, reqs, extraVars>>

\* flags = flags.or(bit) for one of the selected bits, whichever comes next
OrNextBit ==
    /\ \E bit \in flagsLeft :
        /\ flagsAcc' = Or(flagsAcc, bit)
        /\ flagsLeft' = flagsLeft \ {bit}
        /\ flagsOrder' = Append(flagsOrder, bit)
    /\ UNCHANGED <<flagsIn, flagsOut, requestVars, hashVars, reqs, extraVars>>

NextFlags == BuildFlags \/ OrNextBit

SpecFlags == InitFlags /\ [][NextFlags]_vars

\* ------------------------------------------------------------------------
\* Several requests at once: Express calls a handler for each request, and
\* the calls interleave at their awaits
\* ------------------------------------------------------------------------

ValidPayload ==
    [NoPayload EXCEPT !.signingId = JsString(IAddr),
                      !.redirects = FieldArray(<<ARedirect>>)]
ConcurrentPayloads ==
    {ValidPayload,
     [ValidPayload EXCEPT !.signingId = JsUndefined],
     [ValidPayload EXCEPT !.flagHasUrlForDownload = TRUE,
                          !.downloadUrl = JsString(Url),
                          !.dataHash = JsString(ZeroHash)],
     [ValidPayload EXCEPT !.flagHasStatements = TRUE,
                          !.statements = FieldArray(<<AStatement>>)]}

InitConcurrent ==
    /\ NoRequestYet
    /\ NoHashCall
    /\ NoFlagCall
    /\ NoExtraCall

\* the handler named by path is called for request r with body p and runs
\* up to its first await
Suspend(handler, p, result, cmd) ==
    IF result.k = "ok"
    THEN [NotReceived EXCEPT !.pc = "awaitSigner", !.path = handler, !.payload = p,
                             !.toSign = result.request, !.rpcCalls = 1,
                             !.rpcArg = RpcArg(cmd, result.request.signingId,
                                               MessageHex(result.request.details),
                                               result.request.redirects)]
    ELSE [NotReceived EXCEPT !.pc = "responded", !.path = handler, !.payload = p,
                             !.response = ErrorResponse(result.k, result.msg),
                             !.caught = Caught(result.k, result.msg)]
Received(r, handler, p) ==
    IF handler = "A"
    THEN Suspend(handler, p, GenerateSync(p), "signRequest")
    ELSE Suspend(handler, p, SignSync(p), "signdata")

\* the messageHex of the response is that of another request in flight
MessageSent_Shared(r) ==
    LET awaiting == {o \in Requests : reqs[o].pc = "awaitSigner" /\ reqs[o].path = "B"}
    IN  reqs[CHOOSE o \in awaiting : \A x \in awaiting : x <= o].rpcArg.messagehex

\* line 369: messageHex is a const of the call, read again at line 406
MessageSent(r) == reqs[r].rpcArg.messagehex

\* signDataPacket awaits once more after the signature arrived
Resumed_SignatureAwaited(r, outcome) ==
    LET q == [reqs[r] EXCEPT !.outcomes = Append(@, outcome)]
        thrown(msg) == [q EXCEPT !.pc = "responded", !.caught = Caught("Error", msg),
                                 !.response = ErrorResponse("Error", msg)]
        sent(body) == [q EXCEPT !.pc = "responded", !.response = body]
    IN  CASE outcome \in {"deeplink", "signature"} -> [q EXCEPT !.pc = "awaitQr"]
          [] outcome = "qr" /\ q.path = "A" -> sent(QrResponse)
          [] outcome = "qr" /\ q.path = "B" -> sent(SignatureResponse(MessageSent(r)))
          [] OTHER -> thrown("failed")

\* request r goes on after an await with what the await gave it
Resumed(r, outcome) ==
    LET q == [reqs[r] EXCEPT !.outcomes = Append(@, outcome)]
        thrown(msg) == [q EXCEPT !.pc = "responded", !.caught = Caught("Error", msg),
                                 !.response = ErrorResponse("Error", msg)]
        sent(body) == [q EXCEPT !.pc = "responded", !.response = body]
    IN  CASE outcome = "signerFailed" -> thrown("signRequest failed")
          [] outcome = "deeplinkFailed" -> thrown("toWalletDeeplinkUri failed")
          [] outcome = "deeplink" -> [q EXCEPT !.pc = "awaitQr"]
          [] outcome = "qrFailed" -> thrown("QRCode failed")
          [] outcome = "qr" -> sent(QrResponse)
          [] outcome = "rejected" -> thrown("request failed")
          [] outcome = "error" -> thrown("RPC signdata failed.")
          [] outcome = "noSignature" -> thrown("RPC signdata returned no valid signature.")
          [] outcome = "unconvertible" -> thrown("fromCLIJson failed")
          [] outcome = "signature" -> sent(SignatureResponse(MessageSent(r)))

\* the promise of QRCode.toDataURL never settles
Awaited_QrNeverSettles(q) ==
    IF q.pc = "awaitSigner"
    THEN IF q.path = "A" THEN SignRequestOutcomes ELSE SigndataReplies
    ELSE {}

\* what the await request r is suspended at can give it
Awaited(q) ==
    IF q.pc = "awaitSigner"
    THEN IF q.path = "A" THEN SignRequestOutcomes ELSE SigndataReplies
    ELSE IF q.pc = "awaitQr" THEN {"qrFailed", "qr"}
    ELSE {}

Receive(r) ==
    /\ reqs[r].pc = "idle"
    /\ \E handler \in {"A", "B"}, p \in ConcurrentPayloads :
         reqs' = [reqs EXCEPT ![r] =
                     Received(r, handler,
                              IF handler = "A" THEN p
                              ELSE [p EXCEPT !.redirects = FieldUndefined])]
    /\ UNCHANGED <<requestVars, functionVars, extraVars>>

Resume(r) ==
    /\ \E outcome \in Awaited(reqs[r]) : reqs' = [reqs EXCEPT ![r] = Resumed(r, outcome)]
    /\ UNCHANGED <<requestVars, functionVars, extraVars>>

RequestStep(r) == Receive(r) \/ Resume(r)

NextConcurrent ==
    \/ \E r \in Requests : Receive(r)
    \/ \E r \in Requests : Resume(r)

SpecConcurrent == InitConcurrent /\ [][NextConcurrent]_vars

\* the signer replies to every call, and QRCode.toDataURL, which computes
\* locally, settles: an await that can be resumed is resumed
SpecFair == SpecConcurrent /\ \A r \in Requests : WF_vars(Resume(r))

\* ------------------------------------------------------------------------
\* Calls of parseOptionalIAddress on its own
\* ------------------------------------------------------------------------

\* the longest string given to parseOptionalIAddress
MaxAddrLen == 4

AddressArguments ==
    {JsUndefined, JsNull, JsNumber}
    \cup {JsString(s) : s \in ArraysUpTo({" ", "@", "i"}, MaxAddrLen)}

InitAddress ==
    /\ NoRequestYet
    /\ NoHashCall
    /\ NoFlagCall
    /\ addrIn \in AddressArguments
    /\ addrOut = AddressNotCalled
    /\ NoJsonCall
    /\ PageLoaded
    /\ NoSatoshisCall

\* parseOptionalIAddress(addrIn, "requestId")
ParseOptionalIAddress ==
    /\ addrOut = AddressNotCalled
    /\ addrOut' = parseOptionalIAddress(addrIn)
    /\ UNCHANGED <<addrIn, requestVars, functionVars, reqs, jsonVars, clientVars>>

NextAddress == ParseOptionalIAddress

SpecAddress == InitAddress /\ [][NextAddress]_vars

\* ------------------------------------------------------------------------
\* Calls of parseSignableObjects and parseStatements on their own
\* ------------------------------------------------------------------------

\* the longest JSON text, in tokens, and the longest array given to the parsers
MaxToks == 3
MaxElems == 2

\* JSON.stringify of an array: "[" item "," item ... "]"
RECURSIVE JsonStringifyItems(_)
JsonStringifyItems(items) ==
    IF items = <<>> THEN <<>>
    ELSE IF Len(items) = 1 THEN <<ItemTok(items[1])>>
    ELSE <<ItemTok(items[1]), Tok(",")>> \o JsonStringifyItems(Tail(items))
JsonStringify(items) == <<Tok("[")>> \o JsonStringifyItems(items) \o <<Tok("]")>>

\* the same text with a space after every token
RECURSIVE Spaced(_)
Spaced(text) == IF text = <<>> THEN <<>> ELSE <<Head(text), Tok(" ")>> \o Spaced(Tail(text))

JsonTexts ==
    ArraysUpTo({Tok("["), Tok("]"), Tok(","), Tok(" "), ItemTok(AStatement), ItemTok(AnObject)},
               MaxToks)
JsonArrays == ArraysUpTo({AStatement, AnObject, ABadObject, NoItem}, MaxElems)

InitJson ==
    /\ NoRequestYet
    /\ NoHashCall
    /\ NoFlagCall
    /\ NoAddressCall
    /\ PageLoaded
    /\ NoSatoshisCall
    /\ \/ /\ jsonIn \in {FieldUndefined, FieldNull, FieldNumber}
                        \cup {FieldString(text) : text \in JsonTexts}
          /\ jsonTwin = jsonIn
       \/ \E a \in JsonArrays :
             /\ jsonIn = FieldArray(a)
             /\ jsonTwin \in {FieldString(JsonStringify(a)),
                              FieldString(Spaced(JsonStringify(a)))}
    /\ jsonOut = ParsersNotCalled
    /\ twinOut = ParsersNotCalled

\* parseSignableObjects(jsonIn) and parseStatements(jsonIn)
ParseField ==
    /\ ~jsonOut.called
    /\ jsonOut' = ParsersCalled(jsonIn)
    /\ UNCHANGED <<jsonIn, jsonTwin, twinOut, requestVars, functionVars, reqs, addrVars, clientVars>>

\* the same for the JSON encoding
ParseTwin ==
    /\ ~twinOut.called
    /\ twinOut' = ParsersCalled(jsonTwin)
    /\ UNCHANGED <<jsonIn, jsonTwin, jsonOut, requestVars, functionVars, reqs, addrVars, clientVars>>

NextJson == ParseField \/ ParseTwin

SpecJson == InitJson /\ [][NextJson]_vars

\* ------------------------------------------------------------------------
\* Requests whose signableObjects hold elements DataDescriptor.fromJson rejects
\* ------------------------------------------------------------------------

\* the longest signableObjects array of these requests
MaxObjects == 3

\* arrays of objects the codec accepts, objects it rejects, and nulls
DescriptorArrays == ArraysUpTo({AnObject, ABadObject, NoItem}, MaxObjects)

DescriptorPayloads ==
    {[ValidPayload EXCEPT !.signingId = id,
                          !.flagHasUrlForDownload = url,
                          !.downloadUrl = IF url THEN JsString(Url) ELSE JsUndefined,
                          !.statements = st,
                          !.signableObjects = FieldArray(a)] :
        id \in SigningIds, url \in BOOLEAN,
        st \in {FieldUndefined, FieldArray(<<AnObject>>)},
        a \in DescriptorArrays}

InitDescriptors == Init

\* generateDataPacketQr up to `await signRequest(...)`
GenerateFromObjects ==
    /\ pc = "idle"
    /\ \E p \in DescriptorPayloads :
        LET result == GenerateSync(p)
        IN  Start(p, "A", result,
                  RpcArg("signRequest", result.request.signingId,
                         MessageHex(result.request.details), result.request.redirects))

\* signDataPacket up to `await verusId.interface.request(...)`
SignFromObjects ==
    /\ pc = "idle"
    /\ \E p \in DescriptorPayloads :
        LET q == [p EXCEPT !.redirects = FieldUndefined]
            result == SignSync(q)
        IN  Start(q, "B", result,
                  RpcArg("signdata", result.request.signingId,
                         MessageHex(result.request.details), <<>>))

NextDescriptors ==
    \/ GenerateFromObjects
    \/ SignFromObjects
    \/ SignRequestReturns
    \/ QrCodeReturns
    \/ SigndataReturns

SpecDescriptors == InitDescriptors /\ [][NextDescriptors]_vars

\* ------------------------------------------------------------------------
\* The events of the DataPacket form: change and input events, the clicks,
\* and the settling of the fetches the two async handlers wait for
\* ------------------------------------------------------------------------

\* an event other than the URL checkbox's own arrived while URL mode is on
NoteChange ==
    valueAtUrlOn' = IF form.flagHasUrlCheckbox
                    THEN [valueAtUrlOn EXCEPT !.changed = TRUE]
                    ELSE valueAtUrlOn

\* change of 'Has Signature' (lines 1208-1217)
HasSignatureChanged ==
    LET f0 == [form EXCEPT !.flagHasSignatureCheckbox = ~@]
        f1 == handleSignatureFlagExclusivity(f0, "flagHasSignatureCheckbox")
        f2 == toggleConditionalFields(f1)
        f3 == IF f2.flagHasUrlCheckbox THEN updateSignableObjectsWithUrl(f2) ELSE f2
    IN  /\ form' = resetSignature(f3)
        /\ NoteChange
        /\ UNCHANGED <<signCall, submitCall, satVars>>
        /\ UNCHANGED <<requestVars, functionVars, reqs, addrVars, jsonVars>>

\* change of 'For User's Signature' (lines 1219-1223, then line 1277)
ForUsersSignatureChanged ==
    LET f0 == [form EXCEPT !.flagForUsersSignatureCheckbox = ~@]
        f1 == handleSignatureFlagExclusivity(f0, "flagForUsersSignatureCheckbox")
        f2 == toggleConditionalFields(f1)
    IN  /\ form' = resetSignature(f2)
        /\ NoteChange
        /\ UNCHANGED <<signCall, submitCall, satVars>>
        /\ UNCHANGED <<requestVars, functionVars, reqs, addrVars, jsonVars>>

\* change of 'Has URL for Download' (lines 1226-1230, then line 1277)
HasUrlChanged ==
    LET f0 == [form EXCEPT !.flagHasUrlCheckbox = ~@]
        f1 == toggleConditionalFields(f0)
    IN  /\ form' = resetSignature(f1)
        /\ valueAtUrlOn' = IF f0.flagHasUrlCheckbox
                           THEN [on |-> TRUE, value |-> form.signableObjectsTextarea,
                                 changed |-> FALSE]
                           ELSE [valueAtUrlOn EXCEPT !.on = FALSE]
        /\ UNCHANGED <<signCall, submitCall, satVars>>
        /\ UNCHANGED <<requestVars, functionVars, reqs, addrVars, jsonVars>>

\* input in the download URL (lines 1233-1238, then line 1262)
DownloadUrlEdited ==
    \E v \in DownloadUrls \ {form.downloadUrlInput} :
        LET f0 == [form EXCEPT !.downloadUrlInput = v]
            f1 == IF f0.flagHasUrlCheckbox THEN updateSignableObjectsWithUrl(f0) ELSE f0
        IN  /\ form' = resetSignature(f1)
            /\ NoteChange
            /\ UNCHANGED <<signCall, submitCall, satVars>>
            /\ UNCHANGED <<requestVars, functionVars, reqs, addrVars, jsonVars>>

\* input in the data hash (lines 1241-1246, then line 1262)
DatahashEdited ==
    \E v \in Datahashes \ {form.datahashInput} :
        LET f0 == [form EXCEPT !.datahashInput = v]
            f1 == IF f0.flagHasUrlCheckbox THEN updateSignableObjectsWithUrl(f0) ELSE f0
        IN  /\ form' = resetSignature(f1)
            /\ NoteChange
            /\ UNCHANGED <<signCall, submitCall, satVars>>
            /\ UNCHANGED <<requestVars, functionVars, reqs, addrVars, jsonVars>>

\* input in the signable-objects textarea, which takes none while it is
\* read-only (line 1262)
SignableObjectsEdited ==
    /\ ~form.readOnly
    /\ \E v \in SignableTexts :
        /\ Typed(v) # form.signableObjectsTextarea
        /\ form' = resetSignature([form EXCEPT !.signableObjectsTextarea = Typed(v)])
    /\ UNCHANGED <<signCall, submitCall, valueAtUrlOn, satVars>>
    /\ UNCHANGED <<requestVars, functionVars, reqs, addrVars, jsonVars>>

\* click on the sign button (lines 1283-1342), which is disabled while its
\* handler is suspended: a validation error is shown and the handler ends, or
\* the request leaves and the handler waits for fetch
SignClicked ==
    /\ signCall.pc = "idle"
    /\ LET built == SignPayloadOf(form)
       IN  signCall' = IF built.k = "ok"
                       THEN [pc |-> "fetch", payload |-> built.payload]
                       ELSE NoCall
    /\ UNCHANGED <<form, submitCall, valueAtUrlOn, satVars>>
    /\ UNCHANGED <<requestVars, functionVars, reqs, addrVars, jsonVars>>

\* what a fetch settles with: it rejects, or resolves with a response
FetchOutcomes == {"rejected", "response"}

\* `await fetch("/api/sign-data-packet", ...)` settles (line 1342)
SignFetchSettles ==
    /\ signCall.pc = "fetch"
    /\ \E outcome \in FetchOutcomes :
        signCall' = IF outcome = "rejected" THEN NoCall
                    ELSE [signCall EXCEPT !.pc = "json"]
    /\ UNCHANGED <<form, submitCall, valueAtUrlOn, satVars>>
    /\ UNCHANGED <<requestVars, functionVars, reqs, addrVars, jsonVars>>

\* the signature the sign response is stored with is that of the form as it is
StoredSignature_OfForm(f, call, hasSignatureData) ==
    IF hasSignatureData THEN SignatureData(SignPayloadOf(f).payload) ELSE SignatureUndefined

\* line 1355: data.signatureData, the signature of the payload that was sent
StoredSignature(f, call, hasSignatureData) ==
    IF hasSignatureData THEN SignatureData(call.payload) ELSE SignatureUndefined

\* `await response.json().catch(() => ({}))` settles (lines 1350-1369): a
\* response that is not ok throws, the signatureData of one that is ok is
\* stored, and a body that is not JSON or has no signatureData stores
\* undefined
SignResponseRead ==
    /\ signCall.pc = "json"
    /\ \E ok \in BOOLEAN, hasSignatureData \in BOOLEAN :
        form' = IF ok
                THEN [form EXCEPT !.dataPacketSignatureData =
                                      StoredSignature(form, signCall, hasSignatureData),
                                  !.log = IF hasSignatureData THEN "signed"
                                          ELSE IF @ = "signed" THEN "reset" ELSE @]
                ELSE form
    /\ signCall' = NoCall
    /\ UNCHANGED <<submitCall, valueAtUrlOn, satVars>>
    /\ UNCHANGED <<requestVars, functionVars, reqs, addrVars, jsonVars>>

\* submit of the form (lines 1375-1447), whose button is disabled while the
\* handler is suspended: a missing signature, redirects that are not a
\* non-empty JSON array or another validation error end the handler, otherwise
\* the request leaves
FormSubmitted ==
    /\ submitCall.pc = "idle"
    /\ \E redirectsOk \in BOOLEAN :
        IF SignatureMissing(form) \/ ~redirectsOk \/ SignPayloadOf(form).k # "ok"
        THEN UNCHANGED submitCall
        ELSE submitCall' = GenerateRequestOf(form)
    /\ UNCHANGED <<form, signCall, valueAtUrlOn, satVars>>
    /\ UNCHANGED <<requestVars, functionVars, reqs, addrVars, jsonVars>>

\* `await fetch("/api/generate-data-packet-qr", ...)` settles (line 1447)
GenerateFetchSettles ==
    /\ submitCall.pc = "fetch"
    /\ \E outcome \in FetchOutcomes :
        submitCall' = IF outcome = "rejected" THEN NoSubmit
                      ELSE [submitCall EXCEPT !.pc = "json"]
    /\ UNCHANGED <<form, signCall, valueAtUrlOn, satVars>>
    /\ UNCHANGED <<requestVars, functionVars, reqs, addrVars, jsonVars>>

\* `await response.json().catch(() => ({}))` settles (lines 1455-1471): the
\* QR code is shown or the error is
GenerateResponseRead ==
    /\ submitCall.pc = "json"
    /\ submitCall' = NoSubmit
    /\ UNCHANGED <<form, signCall, valueAtUrlOn, satVars>>
    /\ UNCHANGED <<requestVars, functionVars, reqs, addrVars, jsonVars>>

InitForm == Init

NextForm ==
    \/ HasSignatureChanged
    \/ ForUsersSignatureChanged
    \/ HasUrlChanged
    \/ DownloadUrlEdited
    \/ DatahashEdited
    \/ SignableObjectsEdited
    \/ SignClicked
    \/ SignFetchSettles
    \/ SignResponseRead
    \/ FormSubmitted
    \/ GenerateFetchSettles
    \/ GenerateResponseRead

SpecForm == InitForm /\ [][NextForm]_vars

\* ------------------------------------------------------------------------
\* Calls of decimalToSatoshis on its own
\* ------------------------------------------------------------------------

\* the largest whole part, and the most fractional digits, of the amounts
MaxWhole == 12
MaxFrac == 9

\* the decimal string of a natural number
RECURSIVE ToDecimal(_)
ToDecimal(n) ==
    IF n < 10 THEN <<DecimalDigits[n + 1]>>
    ELSE ToDecimal(n \div 10) \o <<DecimalDigits[(n % 10) + 1]>>

\* whole parts: none, the numbers up to MaxWhole, the same after a zero
WholeParts ==
    {<<>>} \cup {ToDecimal(n) : n \in 0..MaxWhole}
           \cup {<<"0">> \o ToDecimal(n) : n \in 0..MaxWhole}

\* fractional parts: the strings of up to MaxFrac digits 0 and 7
FracParts == ArraysUpTo({"0", "7"}, MaxFrac)

\* text that is no amount
NotAmounts ==
    {<<>>, <<" ">>, <<"-", "1">>, <<"+", "1">>, <<"1", "e", "3">>, <<"1", ",", "5">>,
     <<"1", ".", "2", ".", "3">>, <<"1", " ", "2">>, <<"0", "x", "1">>}

SatoshiInputs ==
    WholeParts
        \cup {w \o <<".">> \o f : w \in WholeParts, f \in FracParts}
        \cup {<<" ">> \o w \o <<".">> \o f \o <<"\n">> :
                 w \in WholeParts, f \in ArraysUpTo({"0", "7"}, 1)}
        \cup {w \o <<" ">> : w \in WholeParts}
        \cup NotAmounts

InitSatoshis ==
    /\ NoRequestYet
    /\ NoHashCall
    /\ NoFlagCall
    /\ NoAddressCall
    /\ NoJsonCall
    /\ PageLoaded
    /\ satIn \in SatoshiInputs
    /\ satOut = SatoshisNotCalled

\* decimalToSatoshis(satIn)
DecimalToSatoshis ==
    /\ satOut = SatoshisNotCalled
    /\ satOut' = decimalToSatoshis(satIn)
    /\ UNCHANGED <<satIn, formVars, requestVars, functionVars, reqs, addrVars, jsonVars>>

NextSatoshis == DecimalToSatoshis

SpecSatoshis == InitSatoshis /\ [][NextSatoshis]_vars

\* ------------------------------------------------------------------------
\* Properties of the request handlers (specification Spec)
\* ------------------------------------------------------------------------

\* exactly 64 characters, each of them a hex digit in either case
IsHashString(s) == Len(s) = HashHexLen /\ \A i \in 1..Len(s) : IsHexChar(s[i])

Started == path \in {"A", "B"}
\* the request ended with a ValidationError: status 400, and the signer was
\* never invoked for it
RejectedInvalid == pc = "responded" /\ response.sent /\ response.status = 400
NothingSigned == rpcCalls = 0 /\ ~toSign.details.made
Details == toSign.details

\* C1: on both paths, a request whose payload sets flagHasSignature and
\* flagForUsersSignature ends with a ValidationError (status 400), whatever
\* the other fields of the payload are.
C1_BothSignatureFlagsRejected ==
    (Started /\ payload.flagHasSignature /\ payload.flagForUsersSignature)
        => RejectedInvalid

\* a request with a signing identity and both flags is rejected for the flags
C1_Witness ==
    /\ path = "B" /\ payload.signingId.t = "string"
    /\ payload.flagHasSignature /\ payload.flagForUsersSignature
    /\ payload.flagHasUrlForDownload /\ payload.statements.t = "array"
    /\ RejectedInvalid /\ response.error = ExclusiveMsg

\* C2: on both paths, a request that ends with a ValidationError never invoked
\* the signer, and a request with both signature flags is rejected with no
\* signer call.
C2_NoSignerCallOnValidationError ==
    /\ (response.sent /\ response.status = 400) => rpcCalls = 0
    /\ (Started /\ payload.flagHasSignature /\ payload.flagForUsersSignature)
          => (rpcCalls = 0 /\ rpcArg = NoRpcArg)

\* a request that fails the last validation of Path A (the request id the
\* flag asks for is missing), after everything else was parsed
C2_Witness ==
    /\ path = "A" /\ RejectedInvalid /\ rpcCalls = 0
    /\ response.error = "Request ID is required when FLAG_HAS_REQUEST_ID is set."

\* C3: on both paths, when flagHasUrlForDownload is set and signable objects
\* were submitted as well, the assembled details have exactly one signable
\* object, the URL descriptor whose URLRef carries the submitted (trimmed)
\* download URL; none of the submitted objects is in the details.
SubmittedObjects == parseSignableObjects(payload.signableObjects).list

C3_UrlModeReplacesSubmittedObjects ==
    (Details.made /\ payload.flagHasUrlForDownload /\ Len(SubmittedObjects) > 0)
        => /\ Len(Details.signableObjects) = 1
           /\ Details.signableObjects[1].kind = "url"
           /\ Details.signableObjects[1].url = Trim(payload.downloadUrl.s)
           /\ Details.signableObjects[1].url # <<>>
           /\ \A i \in 1..Len(Details.signableObjects) :
                  Details.signableObjects[i].kind # "json"

C3_Witness ==
    /\ path = "A" /\ pc = "responded" /\ response.status = 200
    /\ payload.flagHasUrlForDownload /\ Len(SubmittedObjects) > 0
    /\ Len(Details.signableObjects) = 1
    /\ Details.signableObjects[1].url = Url

\* C4: on both paths, a request with flagHasStatements set whose statements
\* are absent or parse to an empty list ends with a ValidationError, and no
\* details object is signed.
NoStatementsParsed == parseStatements(payload.statements) = StatementsUndefined

C4_StatementsFlagNeedsStatements ==
    (Started /\ payload.flagHasStatements /\ NoStatementsParsed)
        => (RejectedInvalid /\ NothingSigned)

\* C5: on both paths, when flagHasStatements is unset and a non-empty
\* statements list is supplied, the assembled details have no statements.
C5_StatementsAreFlagGated ==
    (Details.made /\ ~payload.flagHasStatements
        /\ parseStatements(payload.statements).present)
        => (~Details.hasStatements /\ Details.statements = <<>>)

\* C6: on both paths, a request with flagHasRequestId set whose requestId is
\* absent, or empty after trimming and stripping a trailing "@", ends with a
\* ValidationError.
NoRequestIdParsed == parseOptionalIAddress(payload.requestId) = AddressUndefined

C6_RequestIdFlagNeedsRequestId ==
    (Started /\ payload.flagHasRequestId /\ NoRequestIdParsed) => RejectedInvalid

\* C7: on both paths, a request with flagHasUrlForDownload set whose
\* downloadUrl is missing, not a string, or empty after trimming ends with a
\* ValidationError.
NoDownloadUrl == payload.downloadUrl.t # "string" \/ Trim(payload.downloadUrl.s) = <<>>

C7_UrlFlagNeedsDownloadUrl ==
    (Started /\ payload.flagHasUrlForDownload /\ NoDownloadUrl)
        => (RejectedInvalid /\ NothingSigned)

\* the download URL is a blank string, and that is what the request is
\* rejected for
C7_Witness ==
    /\ path = "B" /\ payload.flagHasUrlForDownload
    /\ payload.downloadUrl.t = "string" /\ payload.downloadUrl.s # <<>>
    /\ NoDownloadUrl
    /\ RejectedInvalid
    /\ response.error = "Download URL is required when FLAG_HAS_URL_FOR_DOWNLOAD is set."

\* C8 as claimed: every request that supplies a dataHash which is not exactly
\* 64 hex characters ends with a ValidationError.
HashSupplied == ~IsNullish(payload.dataHash)
HashWellFormed == payload.dataHash.t = "string" /\ IsHashString(payload.dataHash.s)

C8_Original_MalformedHashAlwaysRejected ==
    (Started /\ pc # "idle" /\ HashSupplied /\ ~HashWellFormed) => RejectedInvalid

\* C8 (amended): a request with flagHasUrlForDownload set whose dataHash is a
\* string that is not empty after trimming and is not 64 hex characters after
\* trimming ends with a ValidationError and nothing is signed; and the URL
\* descriptor of an assembled details object lacks the datahash only when the
\* dataHash is not a string or is empty after trimming.
TrimmedHash == Trim(payload.dataHash.s)
HashGiven == payload.dataHash.t = "string" /\ TrimmedHash # <<>>

C8_MalformedHashRejectedInUrlMode ==
    /\ (Started /\ payload.flagHasUrlForDownload /\ HashGiven
           /\ ~IsHashString(TrimmedHash))
          => (RejectedInvalid /\ NothingSigned)
    /\ (Details.made /\ payload.flagHasUrlForDownload /\ HashGiven)
          => /\ Details.signableObjects[1].hasDatahash
             /\ BufferToHex(Details.signableObjects[1].datahash) = ToLowerCase(TrimmedHash)

\* a malformed hash is what the request is rejected for
C8_Witness ==
    /\ path = "A" /\ payload.flagHasUrlForDownload /\ HashGiven
    /\ ~IsHashString(TrimmedHash)
    /\ RejectedInvalid
    /\ response.error = "Data hash must be exactly 32 bytes (64 hex characters)."

\* ------------------------------------------------------------------------
\* Properties of validateDataHash (specification SpecHash)
\* ------------------------------------------------------------------------

HashCalled == hashOut # NotCalled

\* C9 as claimed: every string whose length is not 64 or that has a character
\* that is not hex is rejected with a ValidationError, and only a 64-character
\* hex string is accepted.
C9_Original_AnyOtherShapeRejected ==
    (HashCalled /\ hashIn.t = "string")
        => /\ ~IsHashString(hashIn.s) => hashOut.k = "ValidationError"
           /\ hashOut.k = "buffer" => IsHashString(hashIn.s)

\* C9 (amended): validateDataHash first trims its argument; a string that is
\* empty or white space only gives undefined without an error; any other
\* string whose trimmed form is not exactly 64 hex characters is rejected with
\* a ValidationError; a buffer is returned exactly when the trimmed form is a
\* 64-character hex string in either letter case.
C9_OtherShapeRejectedAfterTrim ==
    (HashCalled /\ hashIn.t = "string")
        => /\ hashOut.k = "undefined" <=> Trim(hashIn.s) = <<>>
           /\ hashOut.k = "buffer" <=> IsHashString(Trim(hashIn.s))
           /\ hashOut.k = "ValidationError"
                 <=> (Trim(hashIn.s) # <<>> /\ ~IsHashString(Trim(hashIn.s)))

\* a string one character too long, all hex, is rejected
C9_Witness ==
    /\ HashCalled /\ hashIn.t = "string"
    /\ Len(hashIn.s) = HashHexLen + 1
    /\ \A i \in 1..Len(hashIn.s) : IsHexChar(hashIn.s[i])
    /\ hashOut.k = "ValidationError"

\* C10: for a 64-character hex argument in any letter case validateDataHash
\* returns a buffer of exactly 32 bytes whose hex encoding is the argument in
\* lower case; 64 zeros give 32 zero bytes.
C10_HashRoundTrip ==
    (HashCalled /\ hashIn.t = "string" /\ IsHashString(hashIn.s))
        => /\ hashOut.k = "buffer"
           /\ Len(hashOut.buf) = HashBytes
           /\ \A i \in 1..Len(hashOut.buf) : hashOut.buf[i] \in 0..255
           /\ hashHex # <<>> => hashHex = ToLowerCase(hashIn.s)
           /\ hashIn.s = ZeroHash => hashOut.buf = [i \in 1..HashBytes |-> 0]

\* an argument with an upper-case digit went through the validator and the
\* hex encoder
C10_Witness ==
    /\ hashIn.t = "string" /\ IsHashString(hashIn.s)
    /\ \E i \in 1..Len(hashIn.s) : hashIn.s[i] \in {"B", "F"}
    /\ hashOut.k = "buffer"
    /\ Len(hashHex) = HashHexLen
    /\ hashHex # hashIn.s

\* ------------------------------------------------------------------------
\* Properties of buildFlags (specification SpecFlags)
\* ------------------------------------------------------------------------

AllOred == flagsLeft = {}

\* C11: over the flag subsets that do not hold both HAS_SIGNATURE and
\* FOR_USERS_SIGNATURE, buildFlags is injective (no other such subset gives
\* the value it returned), and OR-ing the selected bits in any order ends
\* with the value buildFlags returns.
C11_FlagsInjectiveAnyOrder ==
    ~SignatureFlagsConflict(flagsIn) =>
        /\ flagsOut.built =>
              \A q \in FlagInputs :
                  (~SignatureFlagsConflict(q) /\ buildFlags(q) = flagsOut.flags)
                      => q = flagsIn
        /\ AllOred => flagsAcc = buildFlags(flagsIn)
C11_Witness ==
    /\ flagsOut.built
    /\ AllOred
    /\ flagsOrder = <<HAS_URL_FOR_DOWNLOAD, HAS_SIGNATURE, HAS_REQUEST_ID>>
    /\ flagsAcc = flagsOut.flags

\* ------------------------------------------------------------------------
\* Properties of the request handlers, continued (specification Spec)
\* ------------------------------------------------------------------------

\* redirects is absent, is not an array, or is an empty array
RedirectsMissing(p) ==
    \/ p.redirects.t \in {"undefined", "null"}
    \/ p.redirects.t \notin {"array", "string"}
    \/ p.redirects.t = "array" /\ p.redirects.a = <<>>
\* the payload passes generateDataPacketQr once it is given a redirect
OtherwiseValid(p) == GenerateSync([p EXCEPT !.redirects = FieldArray(<<ARedirect>>)]).k = "ok"
ReachedSigner == rpcCalls = 1 /\ toSign.details.made

\* C12: generateDataPacketQr ends with a ValidationError when redirects is
\* absent, not an array or an empty array; signDataPacket, whose payload has
\* no redirects, goes on to the signer for every payload that is valid apart
\* from its redirects.
C12_RedirectsMandatoryOnPathAOnly ==
    /\ (path = "A" /\ RedirectsMissing(payload)) => (RejectedInvalid /\ NothingSigned)
    /\ (path = "B" /\ OtherwiseValid(payload)) =>
          /\ payload.redirects = FieldUndefined
          /\ ReachedSigner
          /\ ~(response.sent /\ response.status = 400)
C12_Witness ==
    /\ path = "A"
    /\ payload.redirects = FieldArray(<<>>)
    /\ OtherwiseValid(payload)
    /\ RejectedInvalid
    /\ response.error = "redirects must be a non-empty JSON array."
C12_PathBWitness ==
    /\ path = "B"
    /\ OtherwiseValid(payload)
    /\ response.sent /\ response.status = 200

Failed == pc = "responded" /\ caught.kind # "none"

\* C13: on both paths a failed request is answered 400 exactly when the
\* error caught is a ValidationError and 500 for every other error; an error
\* envelope from signdata and a signdata result without a string signature
\* are among the latter.
C13_StatusClassifiesFailure ==
    /\ Failed =>
          /\ response.sent
          /\ response.status = 400 <=> caught.kind = "ValidationError"
          /\ response.status = 500 <=> caught.kind # "ValidationError"
    /\ (pc = "responded" /\ signerReply \in {"error", "noSignature"}) =>
          (Failed /\ response.status = 500)
    /\ response.status = 400 => Failed
C13_Witness ==
    /\ path = "B"
    /\ signerReply = "noSignature"
    /\ Failed
    /\ response.status = 500

\* the shapes of a response body
NoResultFields ==
    /\ ~response.deeplink /\ ~response.qrDataUrl
    /\ ~response.signatureData /\ response.messageHex = NoMessage
QrResult ==
    /\ path = "A" /\ response.deeplink /\ response.qrDataUrl
    /\ ~response.signatureData /\ response.messageHex = NoMessage
    /\ response.error = ""
SignatureResult ==
    /\ path = "B" /\ response.signatureData /\ response.messageHex # NoMessage
    /\ ~response.deeplink /\ ~response.qrDataUrl
    /\ response.error = ""
ErrorResult == response.error # "" /\ response.status \in {400, 500} /\ NoResultFields

\* C14: a request is answered at most once, and exactly once when it has
\* ended; the response is the complete result of its path ({deeplink,
\* qrDataUrl} or {signatureData, messageHex}) or an error object with none of
\* the result fields.
C14_NoPartialSuccess ==
    /\ responses <= 1
    /\ pc = "responded" <=> responses = 1
    /\ response.sent <=> responses = 1
    /\ response.sent => (QrResult \/ SignatureResult \/ ErrorResult)
    /\ response.sent => (ErrorResult <=> Failed)
C14_Witness ==
    /\ path = "A"
    /\ signerReply = "signed"
    /\ caught.msg = "QRCode failed"
    /\ responses = 1
    /\ ErrorResult

Succeeded == pc = "responded" /\ response.status = 200

\* C15: the signer is invoked at most once for a request, whatever happens
\* to it, and exactly once for a request that ends with a successful result;
\* a request that failed has made no second attempt.
C15_SignerInvokedAtMostOnce ==
    /\ rpcCalls <= 1
    /\ Succeeded => rpcCalls = 1
    /\ signerReply # "none" => rpcCalls = 1
    /\ (Failed /\ signerReply = "none") => rpcCalls = 0
C15_Witness ==
    /\ path = "B"
    /\ Failed
    /\ signerReply = "rejected"
    /\ rpcCalls = 1

\* the details assembled from a payload, and from that of the request
DetailsOf(p) ==
    AssembleDetails(buildFlags(p), SignableObjectsOf(p).list,
                    parseStatements(p.statements), parseOptionalIAddress(p.requestId))
DetailsOfPayload == DetailsOf(payload)

\* C16: signDataPacket invokes signdata with the (trimmed) signing identity
\* and the hex of the serialized details of the payload, with no envelope and
\* no redirects around them; a successful response returns as messageHex
\* the message that was sent to the signer.
C16_PathBSignsDetailsAlone ==
    /\ (path = "B" /\ rpcCalls = 1) =>
          /\ rpcArg.cmd = "signdata"
          /\ rpcArg.address = Trim(payload.signingId.s)
          /\ rpcArg.messagehex.encoding = "hex"
          /\ rpcArg.messagehex.of = DetailsOfPayload
          /\ rpcArg.redirects = <<>>
          /\ ~toSign.signed /\ toSign.redirects = <<>>
    /\ (path = "B" /\ Succeeded) =>
          /\ response.signatureData
          /\ response.messageHex = rpcArg.messagehex
C16_Witness ==
    /\ path = "B"
    /\ Succeeded
    /\ payload.flagHasUrlForDownload
    /\ rpcArg.messagehex.of.signableObjects[1].hasDatahash
    /\ response.messageHex = rpcArg.messagehex

\* ------------------------------------------------------------------------
\* Properties of concurrent requests (specification SpecConcurrent)
\* ------------------------------------------------------------------------

Suspended(r) == reqs[r].pc \in {"awaitSigner", "awaitQr"}
SameInputs(a, b) ==
    /\ reqs[a].path = reqs[b].path
    /\ reqs[a].payload = reqs[b].payload
    /\ reqs[a].outcomes = reqs[b].outcomes

\* what request r signs and answers comes from its own payload
FromOwnPayload(r) ==
    /\ reqs[r].rpcCalls = 1 =>
          /\ reqs[r].toSign.details = DetailsOf(reqs[r].payload)
          /\ reqs[r].rpcArg.messagehex = MessageHex(DetailsOf(reqs[r].payload))
    /\ reqs[r].response.messageHex # NoMessage =>
          reqs[r].response.messageHex = MessageHex(DetailsOf(reqs[r].payload))

\* C17: whatever the interleaving, two requests with the same handler, the
\* same payload and the same replies of the signer and the encoders are in
\* the same state and have the same response, what a request signs and
\* answers is made from its own payload, and while a request is suspended at
\* its await every other request that has not ended can take its next step.
C17_RequestsIndependent ==
    /\ \A a, b \in Requests : SameInputs(a, b) => reqs[a] = reqs[b]
    /\ \A r \in Requests : FromOwnPayload(r)
    /\ \A a, b \in Requests :
          (a # b /\ Suspended(a) /\ reqs[b].pc # "responded") => ENABLED RequestStep(b)
C17_Witness ==
    /\ reqs[1].pc = "awaitSigner" /\ reqs[1].path = "B"
    /\ reqs[2].pc = "responded" /\ reqs[2].path = "B"
    /\ reqs[2].response.status = 200
    /\ reqs[2].payload # reqs[1].payload
    /\ reqs[2].response.messageHex = reqs[2].rpcArg.messagehex

\* ------------------------------------------------------------------------
\* Stages of a request (specification SpecFair)
\* ------------------------------------------------------------------------

Ended(r) == reqs[r].pc = "responded"
ValidationPassed(r) ==
    (IF reqs[r].path = "A" THEN GenerateSync(reqs[r].payload)
     ELSE SignSync(reqs[r].payload)).k = "ok"
EnteredSigning(r) == reqs[r].rpcCalls = 1
SignerSucceeded(r) ==
    EnteredSigning(r) /\ Len(reqs[r].outcomes) >= 1
                      /\ reqs[r].outcomes[1] \in {"deeplink", "deeplinkFailed",
                                                  "signature", "unconvertible"}
\* the terminal states
Rejected(r) == Ended(r) /\ reqs[r].caught.kind = "ValidationError"
SignerFailed(r) ==
    Ended(r) /\ reqs[r].outcomes \in {<<"signerFailed">>, <<"rejected">>, <<"error">>,
                                       <<"noSignature">>, <<"unconvertible">>}
Completed(r) == Ended(r) /\ reqs[r].response.status = 200
EncodingFailed(r) ==
    Ended(r) /\ reqs[r].outcomes \in {<<"deeplinkFailed">>, <<"deeplink", "qrFailed">>}

StageOrder(r) ==
    /\ EnteredSigning(r) => (ValidationPassed(r) /\ reqs[r].toSign.details.made)
    /\ Rejected(r) => (~ValidationPassed(r) /\ ~EnteredSigning(r) /\ reqs[r].outcomes = <<>>)
    /\ SignerFailed(r) => EnteredSigning(r)
    /\ (reqs[r].pc = "awaitQr" \/ EncodingFailed(r) \/ Completed(r)) => SignerSucceeded(r)
    /\ Ended(r) =>
          /\ Rejected(r) \/ SignerFailed(r) \/ EncodingFailed(r) \/ Completed(r)
          /\ ~(Rejected(r) /\ SignerFailed(r))
          /\ ~(Rejected(r) /\ EncodingFailed(r))
          /\ ~(Rejected(r) /\ Completed(r))
          /\ ~(SignerFailed(r) /\ EncodingFailed(r))
          /\ ~(SignerFailed(r) /\ Completed(r))
          /\ ~(EncodingFailed(r) /\ Completed(r))

Resumptions(r) == Len(reqs[r].outcomes)

\* C19 as claimed: a request is suspended nowhere but at the call of the
\* signer, and is resumed at most once before its response.
C19_Original_OneSuspensionPoint ==
    \A r \in Requests :
        /\ Suspended(r) => reqs[r].pc = "awaitSigner"
        /\ Resumptions(r) <= 1

\* C19, amended: signDataPacket suspends at exactly one point, the signdata
\* call; generateDataPacketQr suspends at the call of the signer and, when
\* that succeeded, a second time at QRCode.toDataURL; nothing else between
\* receiving the payload and the response yields.
C19_SuspensionPoints ==
    \A r \in Requests :
        /\ reqs[r].path = "B" =>
              /\ Suspended(r) => (reqs[r].pc = "awaitSigner" /\ Resumptions(r) = 0)
              /\ Resumptions(r) <= 1
              /\ Completed(r) => Resumptions(r) = 1
        /\ reqs[r].path = "A" =>
              /\ reqs[r].pc = "awaitSigner" => Resumptions(r) = 0
              /\ reqs[r].pc = "awaitQr" => reqs[r].outcomes = <<"deeplink">>
              /\ Resumptions(r) <= 2
              /\ Completed(r) => reqs[r].outcomes = <<"deeplink", "qr">>
        /\ Rejected(r) => Resumptions(r) = 0
C19_Witness ==
    /\ reqs[1].path = "A" /\ reqs[1].pc = "awaitQr"
    /\ reqs[2].path = "B" /\ reqs[2].pc = "awaitSigner"

\* ------------------------------------------------------------------------
\* The signature of a details object (specification Spec)
\* ------------------------------------------------------------------------

\* C20: the details generateDataPacketQr assembles for a request with
\* flagHasSignature carry the signature the caller obtained from
\* signDataPacket: every details object with the HAS_SIGNATURE bit has a
\* signature.
C20_SignatureBitCarriesSignature ==
    (path = "A" /\ Details.made /\ BitSet(Details.flags, HAS_SIGNATURE))
        => Details.hasSignature

\* ------------------------------------------------------------------------
\* Properties of parseOptionalIAddress (specification SpecAddress)
\* ------------------------------------------------------------------------

AddressCalled == addrOut # AddressNotCalled
AddressAbsent == addrOut.k = "ok" /\ ~addrOut.present
\* the string has nothing but white space around at most one "@"
OnlyAnAt(s) ==
    \E i \in 0..Len(s) :
        /\ \A j \in 1..Len(s) : j # i => s[j] \in WhiteSpace
        /\ i > 0 => s[i] = "@" /\ \A j \in (i + 1)..Len(s) : s[j] \in WhiteSpace

\* C21: parseOptionalIAddress takes null, undefined and "" as absent and
\* rejects any other value that is not a string; of a string it trims the
\* white space and strips exactly one trailing "@" (a second one stays in the
\* address, and nothing is trimmed again); a string with nothing left after
\* that is absent, not an error.
C21_AddressCleaning ==
    AddressCalled =>
        /\ addrIn.t \in {"undefined", "null"} => AddressAbsent
        /\ addrIn.t \notin {"undefined", "null", "string"} => addrOut.k = "ValidationError"
        /\ addrIn.t = "string" =>
              /\ addrOut.k = "ok"
              /\ AddressAbsent <=> OnlyAnAt(addrIn.s)
              /\ addrOut.present =>
                    \/ addrOut.address = Trim(addrIn.s) /\ ~EndsWithAt(Trim(addrIn.s))
                    \/ addrOut.address \o <<"@">> = Trim(addrIn.s)
C21_Witness ==
    /\ addrIn = JsString(<<" ", "i", "@", "@">>)
    /\ addrOut = AddressObject(<<"i", "@">>)

\* ------------------------------------------------------------------------
\* Optional fields of the details (specification Spec)
\* ------------------------------------------------------------------------

StatementsSubmitted == payload.statements.t = "array" /\ payload.statements.a # <<>>
RequestIdSubmitted == payload.requestId.t = "string" /\ ~OnlyAnAt(payload.requestId.s)

\* C22: on both paths the details have a statements field exactly when the
\* submitted statements are a non-empty list, and then it is that non-empty
\* list, never an empty one; they have a requestID field exactly when an
\* address was left after cleaning the submitted request id.
C22_OptionalFieldsOnlyWhenNonEmpty ==
    Details.made =>
        /\ Details.hasStatements <=> StatementsSubmitted
        /\ Details.hasStatements => Details.statements # <<>>
        /\ ~Details.hasStatements => Details.statements = <<>>
        /\ Details.hasRequestID <=> RequestIdSubmitted
        /\ Details.hasRequestID => Details.requestID # <<>>
C22_Witness ==
    /\ path = "B"
    /\ Details.made
    /\ payload.statements = FieldArray(<<>>)
    /\ payload.requestId = JsString(<<" ", "@">>)
    /\ ~Details.hasStatements /\ ~Details.hasRequestID

\* ------------------------------------------------------------------------
\* Properties of the array parsers (specification SpecJson)
\* ------------------------------------------------------------------------

BothRejected(out) ==
    out.signable.k = "ValidationError" /\ out.statements.k = "ValidationError"
BothAbsent(out) == out.signable = SignableOk(<<>>) /\ out.statements = StatementsUndefined
NoSpaces(text) == SelectSeq(text, LAMBDA x : x.c # " ")
\* the text is the JSON encoding of some array, white space aside
IsArrayText(text) ==
    \E a \in ArraysUpTo({AStatement, AnObject}, Len(text)) :
        NoSpaces(text) = JsonStringify(a)

\* C23: parseSignableObjects and parseStatements give the same result for an
\* array and for a string holding its JSON encoding; null, undefined, "" and
\* "[]" give the empty list and undefined without an error; a value that is
\* neither a string nor an array, and a string that is not the JSON text of an
\* array, are rejected with a ValidationError.
C23_ArrayAndEncodingAgree ==
    /\ (jsonOut.called /\ twinOut.called) =>
          (jsonOut.signable = twinOut.signable /\ jsonOut.statements = twinOut.statements)
    /\ jsonOut.called =>
          /\ (jsonIn \in {FieldUndefined, FieldNull, FieldString(<<>>),
                          FieldString(EmptyArrayText)}) => BothAbsent(jsonOut)
          /\ jsonIn.t \in {"undefined", "null"} => BothAbsent(jsonOut)
          /\ jsonIn.t \notin {"undefined", "null", "string", "array"} => BothRejected(jsonOut)
          /\ (jsonIn.t = "string" /\ jsonIn.s # <<>> /\ ~IsArrayText(jsonIn.s))
                => BothRejected(jsonOut)
          /\ jsonIn.t = "string" =>
                \A a \in ArraysUpTo({AStatement, AnObject}, Len(jsonIn.s)) :
                    NoSpaces(jsonIn.s) = JsonStringify(a)
                        => jsonOut = ParsersCalled(FieldArray(a))
C23_Witness ==
    /\ jsonIn = FieldArray(<<AStatement, AnObject>>)
    /\ jsonTwin = FieldString(Spaced(JsonStringify(<<AStatement, AnObject>>)))
    /\ jsonOut.called /\ twinOut.called
    /\ jsonOut.signable.k = "ok"
    /\ jsonOut.statements.index = 1
    /\ twinOut = jsonOut

\* C25: on both paths, in every details object that reaches the signer the
\* HAS_REQUEST_ID bit of the flags is set if and only if the details have a
\* requestID field.
C25_RequestIdBitMatchesField ==
    ReachedSigner => (BitSet(Details.flags, HAS_REQUEST_ID) <=> Details.hasRequestID)

\* ------------------------------------------------------------------------
\* Properties of rejected signable objects (specification SpecDescriptors)
\* ------------------------------------------------------------------------

\* the submitted array holds an element the map callback throws for
FailingElements(p) ==
    /\ p.signableObjects.t = "array"
    /\ \E i \in 1..Len(p.signableObjects.a) : DescriptorFails(p.signableObjects.a[i])

\* the index (from 0) of the first such element
FirstFailing(p) ==
    CHOOSE i \in 0..(Len(p.signableObjects.a) - 1) :
        /\ DescriptorFails(p.signableObjects.a[i + 1])
        /\ \A j \in 0..(i - 1) : ~DescriptorFails(p.signableObjects.a[j + 1])

\* the checks the handlers run before parseSignableObjects let the payload pass
DescriptorsAttempted(p) ==
    /\ requireString(p.signingId).k = "ok"
    /\ ~SignatureFlagsConflict(p)
    /\ parseStatements(p.statements).k = "ok"
    /\ parseOptionalIAddress(p.requestId).k = "ok"

\* C24: on both paths, a request with flagHasUrlForDownload unset whose
\* signableObjects array holds an element DataDescriptor construction fails for
\* ends with a ValidationError (status 400) without a call of the signer, and
\* when the construction was attempted (the earlier checks passed) the error
\* message names the index of the first failing element.
C24_FailingDescriptorNamesFirstIndex ==
    (Started /\ ~payload.flagHasUrlForDownload /\ FailingElements(payload)) =>
        /\ RejectedInvalid
        /\ NothingSigned
        /\ signerReply = "none"
        /\ caught.kind = "ValidationError"
        /\ DescriptorsAttempted(payload) =>
              /\ response.error = DescriptorMsg(FirstFailing(payload))
              /\ caught.msg = DescriptorMsg(FirstFailing(payload))

C24_Witness ==
    /\ path = "B" /\ pc = "responded"
    /\ ~payload.flagHasUrlForDownload
    /\ payload.signableObjects = FieldArray(<<AnObject, ABadObject, NoItem>>)
    /\ response.status = 400
    /\ response.error = "Invalid DataDescriptor at index 1"
    /\ rpcCalls = 0

\* ------------------------------------------------------------------------
\* Properties of the DataPacket form (specification SpecForm)
\* ------------------------------------------------------------------------

SignatureStored == form.dataPacketSignatureData.k = "signature"

\* C26: whenever a signature is stored in dataPacketSignatureData, it is the
\* signature of the sign payload the form's current inputs give, whatever
\* change and input events arrived while the sign request was in flight.
C26_StoredSignatureIsCurrent ==
    SignatureStored =>
        /\ SignPayloadOf(form).k = "ok"
        /\ form.dataPacketSignatureData.of = SignPayloadOf(form).payload

BothSignatureBoxesChecked ==
    form.flagHasSignatureCheckbox /\ form.flagForUsersSignatureCheckbox

\* C27: the page loads with 'Has Signature' and 'For User's Signature'
\* unchecked; after any sequence of events the two are never both checked,
\* and the event that checks 'For User's Signature' leaves no signature stored.
C27_SignatureBoxesExclusive ==
    /\ [](~BothSignatureBoxesChecked)
    /\ [][(~form.flagForUsersSignatureCheckbox /\ form'.flagForUsersSignatureCheckbox)
            => form'.dataPacketSignatureData = SignatureNull]_vars

\* 'For User's Signature' is checked, which unchecked 'Has Signature' and
\* discarded a signature that was stored
C27_Witness ==
    /\ form.flagForUsersSignatureCheckbox
    /\ ~form.flagHasSignatureCheckbox
    /\ form.dataPacketSignatureData = SignatureNull
    /\ form.log = "reset"
    /\ signCall.pc = "idle"

GenerateRequestInFlight == submitCall.pc # "idle"

\* C28: a submit with 'Has Signature' checked and no signature stored sends
\* no request to /api/generate-data-packet-qr, and every generate request sent
\* with flagHasSignature true left after a sign response stored a signature
\* that had not been reset since.
C28_SignedBeforeGenerate ==
    /\ []((GenerateRequestInFlight /\ submitCall.flagHasSignature) => submitCall.signed)
    /\ [][(~GenerateRequestInFlight /\ form.flagHasSignatureCheckbox /\ ~SignatureStored)
            => ~GenerateRequestInFlight']_vars

\* a request with flagHasSignature true is on its way, sent while the
\* signature of an earlier sign response was stored
C28_Witness ==
    /\ submitCall.pc = "fetch"
    /\ submitCall.flagHasSignature
    /\ submitCall.signed
    /\ SignatureStored

UrlModeSwitchedOff == form.flagHasUrlCheckbox /\ ~form'.flagHasUrlCheckbox

\* C29: the event that switches URL mode off sets the signable-objects text
\* to exactly the value it had when URL mode was switched on, whatever other
\* checkbox changes and download-URL and data-hash edits arrived while the mode
\* was on; while the mode is on the text cannot be edited.
C29_UrlModeRestoresText ==
    /\ [](form.flagHasUrlCheckbox => form.readOnly)
    /\ [][UrlModeSwitchedOff =>
             form'.signableObjectsTextarea = valueAtUrlOn.value]_vars

\* URL mode was switched on over a typed text, events arrived while it was
\* on, and it is off again with the typed text back
C29_Witness ==
    /\ ~form.flagHasUrlCheckbox
    /\ ~valueAtUrlOn.on
    /\ valueAtUrlOn.changed
    /\ valueAtUrlOn.value = Typed("[o]")
    /\ form.signableObjectsTextarea = Typed("[o]")
    /\ form.downloadUrlInput = "u"
    /\ form.datahashInput = "h"

\* ------------------------------------------------------------------------
\* Properties of decimalToSatoshis (specification SpecSatoshis)
\* ------------------------------------------------------------------------

SatoshisCalled == satOut # SatoshisNotCalled

\* the number a string of digits denotes
RECURSIVE NumberOf(_)
NumberOf(s) ==
    IF s = <<>> THEN 0
    ELSE 10 * NumberOf(SubSeq(s, 1, Len(s) - 1))
            + (CHOOSE d \in 0..9 : DecimalDigits[d + 1] = s[Len(s)])

RECURSIVE TenTo(_)
TenTo(n) == IF n = 0 THEN 1 ELSE 10 * TenTo(n - 1)

\* s is digits, or digits "." digits, with at most 8 digits after the point
IsAmount(s) ==
    \E w \in 1..Len(s) :
        /\ \A i \in 1..w : \E d \in 0..9 : DecimalDigits[d + 1] = s[i]
        /\ \/ w = Len(s)
           \/ /\ w + 1 < Len(s)
              /\ s[w + 1] = "."
              /\ \A i \in (w + 2)..Len(s) : \E d \in 0..9 : DecimalDigits[d + 1] = s[i]
FractionDigits(s) ==
    IF \E i \in 1..Len(s) : s[i] = "."
    THEN Len(s) - (CHOOSE i \in 1..Len(s) : s[i] = ".")
    ELSE 0

\* the value of the amount s times 10^8, for at most 8 fraction digits
TimesTenToEight(s) ==
    LET n == FractionDigits(s)
        w == SubSeq(s, 1, IF n = 0 THEN Len(s) ELSE Len(s) - n - 1)
        f == SubSeq(s, Len(s) - n + 1, Len(s))
    IN  NumberOf(w) * TenTo(8) + NumberOf(f) * TenTo(8 - n)

Convertible(s) == IsAmount(s) /\ FractionDigits(s) <= 8 /\ TimesTenToEight(s) # 0

====
